---- MODULE Spec2Model ----
(***************************************************************************)
(* State-machine model of the workflow core of the marketplace backend:    *)
(* the inventory ledger (seller_routes.update_stock, bulk_update_stock),   *)
(* the category tree (admin_routes create/update/delete/bulk), the shop    *)
(* verification workflow (OTPs, request_verification, the admin            *)
(* transitions) and subscriptions (Subscription, toggle_subscription).     *)
(*                                                                         *)
(* Conventions.  One action is one HTTP request handled to completion:     *)
(* the handler's reads, writes, commit and rollback.  Uncommitted session  *)
(* writes of a request that returns without committing are discarded with  *)
(* the request-scoped session.  Names the handlers use resolve to the      *)
(* evident definitions of the repository (seller.shop is the seller's one  *)
(* owned shop, VALID_CATEGORY_LEVELS is category_model's set, the          *)
(* VERIFICATION_STATUS_* are the VerificationStatus members, the timestamp *)
(* expressions yield the current time, toggle_subscription's Product and   *)
(* admin_id are the Product model and the request's admin_id).  Stored and *)
(* current timestamps are instants of one clock.  The timestamps of        *)
(* Product and StockUpdate rows are not part of the modelled state.        *)
(***************************************************************************)
EXTENDS Integers, Sequences, FiniteSets, TLC

VARIABLES
    product_stock,   \* Product.stock, per product id
    stock_updates,   \* the StockUpdate table, rows in insertion (id) order
    row_source,      \* history: the request payload each StockUpdate row came from
    updates_ok,      \* history: per product, stock mutations that reported success
    categories,      \* the Category table: id -> row
    next_category_id,\* the next value of the Category id sequence
    category_changes,\* history: committed requests that wrote to the Category table
    shops,           \* the verification fields of the Shop table: id -> row
    otps,            \* the VerificationOTP table, rows in insertion (id) order
    now,             \* the clock
    shop_changes,    \* history: requests that changed the Shop or VerificationOTP table
    subscriptions,   \* the Subscription table, rows in insertion (id) order
    premium,         \* User.premium, per user id
    otp_sessions,    \* per concurrent create_otp call: its position and transaction
    stock_sessions,  \* per concurrent update_stock call: its position and transaction
    last             \* the stock request handled last (whether it named a product of
                     \* another shop, how many items it had, for a bulk request
                     \* the product ids of its well-formed items) and the response

stock_vars == <<product_stock, stock_updates, row_source, updates_ok>>
category_vars == <<categories, next_category_id, category_changes>>
verification_vars == <<shops, otps, now, shop_changes>>
subscription_vars == <<subscriptions, premium>>
session_vars == <<otp_sessions, stock_sessions>>
vars == <<product_stock, stock_updates, row_source, updates_ok,
          categories, next_category_id, category_changes,
          shops, otps, now, shop_changes, subscriptions, premium,
          otp_sessions, stock_sessions, last>>

----------------------------------------------------------------------------
(* Bounds of the exploration. *)
MaxRows == 2
MaxCategories == 4
MaxCategoryChanges == 4
MaxTime == 1
MaxShopChanges == 2
MaxSubscriptions == 3
MaxSessions == 2
MaxOtps == 3
MaxRaceRows == 3

----------------------------------------------------------------------------
(* JSON request values: null, integers, strings, and numbers with a        *)
(* fraction, HalfV(k) being k/2 for an odd k.                              *)
NoneV == [t |-> "null", v |-> 0]
IntV(n) == [t |-> "int", v |-> n]
StrV(s) == [t |-> "str", v |-> s]
HalfV(k) == [t |-> "float", v |-> k]

IsNone(x) == x.t = "null"

(* Python int(x): an int is itself, a float is truncated toward zero, a    *)
(* string is parsed, and a string that is no numeral raises ValueError.    *)
Numerals == [s \in {"2", "-2"} |-> IF s = "2" THEN 2 ELSE -2]
IntRaises(x) == x.t = "str" /\ x.v \notin DOMAIN Numerals
IntOf(x) ==
    CASE x.t = "int" -> x.v
      [] x.t = "float" -> IF x.v >= 0 THEN x.v \div 2 ELSE -((-x.v) \div 2)
      [] OTHER -> Numerals[x.v]

(* str.strip() on the reason strings the model sends. *)
Strip(s) == CASE s = " " -> ""
              [] s = " no licence " -> "no licence"
              [] s = " damaged " -> "damaged"
              [] OTHER -> s

----------------------------------------------------------------------------
(* Stored rows the stock handlers read. *)
UserRole ==
    (1 :> "seller") @@ (2 :> "seller") @@ (3 :> "buyer") @@ (4 :> "seller")
    @@ (5 :> "admin")
ShopOwner == (1 :> 1) @@ (2 :> 2)
ProductShop == (1 :> 1) @@ (2 :> 2)
InitialStock == (1 :> 1) @@ (2 :> 0)

Products == DOMAIN ProductShop
NoShop == 0

(* seller.shop: the shop whose owner_id is the seller (uselist=False). *)
ShopOf(user_id) ==
    IF \E s \in DOMAIN ShopOwner : ShopOwner[s] = user_id
    THEN CHOOSE s \in DOMAIN ShopOwner : ShopOwner[s] = user_id
    ELSE NoShop

(* Variant of the ownership filter that looks the product up by id only. *)
AnyShopProduct(product_id, shop) ==
    product_id \in Products

(* Product.query.filter_by(id=product_id, shop_id=shop.id).first() *)
OwnedProduct(product_id, shop) ==
    product_id \in Products /\ ProductShop[product_id] = shop

(* A seller with a shop names a product that exists in another shop. *)
Foreign(seller_id, product_id) ==
    /\ ShopOf(seller_id) # NoShop
    /\ product_id \in Products
    /\ ProductShop[product_id] # ShopOf(seller_id)

----------------------------------------------------------------------------
(* Request inputs. *)
SellerIds == {0, 1, 2, 3, 4}       \* 0: no seller_id given (falsy)
ProductIds == {1, 2, 3}            \* 3: no such product
StockInputs == {NoneV, IntV(-1), IntV(2), StrV("2"), StrV("abc"), HalfV(5)}
ChangeInputs == {NoneV, IntV(-2), IntV(1), StrV("abc")}
StockData ==
    [stock : StockInputs, stock_change : ChangeInputs, reason : {""}]
    \cup [stock : {NoneV}, stock_change : {IntV(-2)}, reason : {" ", " damaged "}]
SampleData == [stock : {NoneV}, stock_change : {IntV(1)}, reason : {""}]
UpdateItem(product_id, stock, stock_change, reason) ==
    [product_id |-> product_id, stock |-> stock, stock_change |-> stock_change,
     reason |-> reason]
StockRequest(seller_id, product_id, data) ==
    [seller_id |-> seller_id, product_id |-> product_id, data |-> data]
(* Every payload from seller 1 on the product of shop 1; a sample payload  *)
(* from every caller on every product id.                                  *)
StockRequests ==
    {StockRequest(1, 1, d) : d \in StockData}
    \cup {StockRequest(s, p, d) : s \in SellerIds, p \in ProductIds, d \in SampleData}

NoReason == "None"
StockRow(product_id, old_stock, new_stock, stock_change, updated_by, reason) ==
    [product_id |-> product_id, old_stock |-> old_stock, new_stock |-> new_stock,
     stock_change |-> stock_change, updated_by |-> updated_by, reason |-> reason]

(* A response: the status code and message, the product ids reported as    *)
(* updated and the per-item errors.                                        *)
Response(op, code, message) ==
    [op |-> op, code |-> code, message |-> message, updated |-> <<>>, errors |-> <<>>]
(* An item that is valid on its own: it names a product of the seller's    *)
(* shop and gives an integer (a number without fraction, or a numeral) as  *)
(* "stock" or else as "stock_change".                                      *)
IsInteger(x) == x.t = "int" \/ (x.t = "str" /\ x.v \in DOMAIN Numerals)
WellFormed(seller_id, item) ==
    /\ ShopOf(seller_id) # NoShop
    /\ item.product_id \in Products
    /\ ProductShop[item.product_id] = ShopOf(seller_id)
    /\ IF ~IsNone(item.stock) THEN IsInteger(item.stock)
       ELSE IsInteger(item.stock_change)

RECURSIVE WellFormedIds(_, _)
WellFormedIds(seller_id, items) ==
    IF items = <<>> THEN <<>>
    ELSE (IF WellFormed(seller_id, Head(items)) THEN <<Head(items).product_id>> ELSE <<>>)
         \o WellFormedIds(seller_id, Tail(items))

Summary(foreign, items, valid, resp) ==
    [op |-> resp.op, foreign |-> foreign, items |-> items, valid |-> valid,
     code |-> resp.code, updated |-> resp.updated, errors |-> Len(resp.errors)]
(* What a stored row was asked for: the handler, the values supplied, the  *)
(* integer requested and whether a reason came with it.                    *)
Source(op, payload) ==
    [op |-> op,
     mode |-> IF IsNone(payload.stock) THEN "stock_change"
              ELSE IF IsNone(payload.stock_change) THEN "stock" ELSE "both",
     value |-> IF IsNone(payload.stock) THEN IntOf(payload.stock_change)
               ELSE IntOf(payload.stock),
     reason_given |-> Strip(payload.reason) # ""]

----------------------------------------------------------------------------
(* update_stock *)

(* Lines 190-209: the reason, autogenerated from the request when none is  *)
(* given.                                                                  *)
AutoReason(data, current) ==
    IF Strip(data.reason) # "" THEN Strip(data.reason)
    ELSE IF ~IsNone(data.stock)
         THEN IF IntOf(data.stock) > current THEN "restocked"
              ELSE IF IntOf(data.stock) < current THEN "goods sold"
              ELSE "stock adjusted"
    ELSE IF ~IsNone(data.stock_change)
         THEN IF IntOf(data.stock_change) > 0 THEN "restocked"
              ELSE IF IntOf(data.stock_change) < 0 THEN "goods sold"
              ELSE "stock adjusted"
    ELSE "stock adjusted"

(* int(stock) / int(stock_change) raising ValueError, at lines 195/222 or  *)
(* 202/226.                                                                *)
StockValueError(data) ==
    \/ ~IsNone(data.stock) /\ IntRaises(data.stock)
    \/ IsNone(data.stock) /\ ~IsNone(data.stock_change) /\ IntRaises(data.stock_change)

(* Variants of the calculation: one clamps the result but records the     *)
(* requested delta, one applies the delta without clamping.               *)
CalculateRequestedChange(old_stock, data) ==
    IF ~IsNone(data.stock)
    THEN [new_stock |-> IntOf(data.stock),
          stock_change |-> IntOf(data.stock) - old_stock]
    ELSE LET change == IntOf(data.stock_change)
             new == old_stock + change
         IN [new_stock |-> IF new < 0 THEN 0 ELSE new, stock_change |-> change]

CalculateUnclamped(old_stock, data) ==
    IF ~IsNone(data.stock)
    THEN [new_stock |-> IntOf(data.stock),
          stock_change |-> IntOf(data.stock) - old_stock]
    ELSE [new_stock |-> old_stock + IntOf(data.stock_change),
          stock_change |-> IntOf(data.stock_change)]

(* Lines 218-231: the new stock and the recorded change. *)
CalculateNewStock(old_stock, data) ==
    IF ~IsNone(data.stock)
    THEN [new_stock |-> IntOf(data.stock),
          stock_change |-> IntOf(data.stock) - old_stock]
    ELSE LET change == IntOf(data.stock_change)
             new == old_stock + change
         IN IF new < 0
            THEN [new_stock |-> 0, stock_change |-> -old_stock]
            ELSE [new_stock |-> new, stock_change |-> change]

(* The handler as a function of the stored state and the request: the      *)
(* response and the state it leaves committed.                             *)
Unchanged(resp) ==
    [resp |-> resp, stock |-> product_stock, rows |-> stock_updates, source |-> row_source]

(* Variant of the commit in which a failed commit keeps the stock write. *)
CommitKeepsStock(s, commit_ok, failure) ==
    IF commit_ok THEN s ELSE [Unchanged(failure) EXCEPT !.stock = s.stock]

(* db.session.commit(), and db.session.rollback() in the handler's except  *)
(* clause when the write or the commit raises.                             *)
CommitSession(s, commit_ok, failure) ==
    IF commit_ok THEN s ELSE Unchanged(failure)

update_stock_result(req, commit_ok) ==
    LET op == "update_stock"
        seller_id == req.seller_id
        product_id == req.product_id
        data == req.data
        shop == ShopOf(seller_id)
    IN
    IF seller_id = 0
    THEN Unchanged(Response(op, 400, "Seller ID is required"))
    ELSE IF seller_id \notin DOMAIN UserRole \/ UserRole[seller_id] # "seller"
    THEN Unchanged(Response(op, 404, "Seller not found"))
    ELSE IF shop = NoShop
    THEN Unchanged(Response(op, 404, "Shop not found for this seller"))
    ELSE IF ~OwnedProduct(product_id, shop)
    THEN Unchanged(Response(op, 404, "Product not found or does not belong to your shop"))
    ELSE IF Strip(data.reason) = "" /\ StockValueError(data)
    THEN Unchanged(Response(op, 400, "Invalid stock value"))
    ELSE IF IsNone(data.stock) /\ IsNone(data.stock_change)
    THEN Unchanged(Response(op, 400, "Either stock or stock_change is required"))
    ELSE IF StockValueError(data)
    THEN Unchanged(Response(op, 400, "Invalid stock value"))
    ELSE
      LET old_stock == product_stock[product_id]
          reason == AutoReason(data, old_stock)
          calc == CalculateNewStock(old_stock, data)
          row == StockRow(product_id, old_stock, calc.new_stock, calc.stock_change,
                          seller_id, reason)
      IN CommitSession(
             [resp |-> [Response(op, 200, "Stock updated successfully")
                          EXCEPT !.updated = <<product_id>>],
              stock |-> [product_stock EXCEPT ![product_id] = calc.new_stock],
              rows |-> Append(stock_updates, row),
              source |-> Append(row_source, Source(op, data))],
             commit_ok, Response(op, 500, "Error updating stock"))

InBounds(out) == Len(out.rows) <= MaxRows

Commit(foreign, items, valid, out) ==
    /\ InBounds(out)
    /\ product_stock' = out.stock
    /\ stock_updates' = out.rows
    /\ row_source' = out.source
    /\ updates_ok' = [p \in Products |->
                        updates_ok[p]
                        + Cardinality({i \in 1..Len(out.resp.updated) :
                                          out.resp.updated[i] = p})]
    /\ last' = Summary(foreign, items, valid, out.resp)
    /\ UNCHANGED <<category_vars, verification_vars, subscription_vars, session_vars>>

update_stock ==
    \E req \in StockRequests, commit_ok \in BOOLEAN :
        Commit(Foreign(req.seller_id, req.product_id), 1, <<>>,
               update_stock_result(req, commit_ok))

----------------------------------------------------------------------------
(* bulk_update_stock *)
BulkItems ==
    { UpdateItem(1, IntV(2), NoneV, ""),      UpdateItem(1, StrV("abc"), NoneV, ""),
      UpdateItem(1, NoneV, IntV(-2), ""),     UpdateItem(1, NoneV, IntV(1), ""),
      UpdateItem(1, NoneV, NoneV, ""),        UpdateItem(1, IntV(-1), NoneV, " damaged "),
      UpdateItem(2, NoneV, IntV(1), ""),    UpdateItem(1, HalfV(5), NoneV, ""),
      UpdateItem(0, IntV(2), NoneV, ""),      UpdateItem(3, IntV(2), NoneV, "") }
BulkLists ==
    {<<>>} \cup {<<a>> : a \in BulkItems} \cup {<<a, b>> : a, b \in BulkItems}
BulkRequest(seller_id, updates) == [seller_id |-> seller_id, updates |-> updates]
BulkRequests ==
    {BulkRequest(1, u) : u \in BulkLists}
    \cup {BulkRequest(2, <<a>>) : a \in BulkItems}
    \cup {BulkRequest(s, <<UpdateItem(1, IntV(2), NoneV, "")>>) : s \in SellerIds}

(* Lines 338-351: the new stock of one item; "missing" when the item gives *)
(* neither value.                                                          *)
BulkCalculate(old_stock, item) ==
    IF ~IsNone(item.stock)
    THEN [missing |-> FALSE, new_stock |-> IntOf(item.stock),
          stock_change |-> IntOf(item.stock) - old_stock]
    ELSE IF ~IsNone(item.stock_change)
    THEN LET change == IntOf(item.stock_change)
             new == old_stock + change
         IN IF new < 0
            THEN [missing |-> FALSE, new_stock |-> 0, stock_change |-> -old_stock]
            ELSE [missing |-> FALSE, new_stock |-> new, stock_change |-> change]
    ELSE [missing |-> TRUE, new_stock |-> old_stock, stock_change |-> 0]

ItemError(product_id, error) == [product_id |-> product_id, error |-> error]

(* Lines 322-381: one pass of the loop body over the session state. *)
BulkStep(s, item, seller_id, shop) ==
    LET reason == IF Strip(item.reason) = "" THEN NoReason ELSE Strip(item.reason)
        fail(error) ==
            [s EXCEPT !.resp.errors = Append(@, ItemError(item.product_id, error))]
    IN
    IF item.product_id = 0
    THEN fail("Product ID is required")
    ELSE IF ~OwnedProduct(item.product_id, shop)
    THEN fail("Product not found or does not belong to your shop")
    ELSE IF StockValueError(item)
    THEN fail("Invalid stock value")
    ELSE
      LET old_stock == s.stock[item.product_id]
          calc == BulkCalculate(old_stock, item)
      IN IF calc.missing
         THEN fail("Either stock or stock_change is required")
         ELSE [s EXCEPT
                 !.stock[item.product_id] = calc.new_stock,
                 !.rows = Append(@, StockRow(item.product_id, old_stock, calc.new_stock,
                                             calc.stock_change, seller_id, reason)),
                 !.source = Append(@, Source("bulk_update_stock", item)),
                 !.resp.updated = Append(@, item.product_id)]

RECURSIVE BulkLoop(_, _, _, _, _)
BulkLoop(s, updates, i, seller_id, shop) ==
    IF i > Len(updates) THEN s
    ELSE BulkLoop(BulkStep(s, updates[i], seller_id, shop), updates, i + 1, seller_id, shop)

bulk_update_stock_result(req, commit_ok) ==
    LET op == "bulk_update_stock"
        seller_id == req.seller_id
        updates == req.updates
        shop == ShopOf(seller_id)
    IN
    IF seller_id = 0
    THEN Unchanged(Response(op, 400, "Seller ID is required"))
    ELSE IF seller_id \notin DOMAIN UserRole \/ UserRole[seller_id] # "seller"
    THEN Unchanged(Response(op, 404, "Seller not found"))
    ELSE IF shop = NoShop
    THEN Unchanged(Response(op, 404, "Shop not found for this seller"))
    ELSE IF updates = <<>>
    THEN Unchanged(Response(op, 400, "Updates array is required"))
    ELSE
      LET s == BulkLoop(Unchanged(Response(op, 0, "")), updates, 1, seller_id, shop)
          done == [s EXCEPT !.resp.code = IF s.resp.errors = <<>> THEN 200 ELSE 207,
                            !.resp.message = "Updated product(s)"]
      IN IF s.resp.updated # <<>>
         THEN CommitSession(done, commit_ok, Response(op, 500, "Error performing bulk update"))
         ELSE done

bulk_update_stock ==
    \E req \in BulkRequests, commit_ok \in BOOLEAN :
        Commit(\E i \in 1..Len(req.updates) : Foreign(req.seller_id, req.updates[i].product_id),
               Len(req.updates), WellFormedIds(req.seller_id, req.updates),
               bulk_update_stock_result(req, commit_ok))

----------------------------------------------------------------------------
(* The category tree: models/category_model.py and the category handlers   *)
(* of routes/admin_routes.py.                                              *)

CATEGORY_LEVEL_TRUNK == 0
CATEGORY_LEVEL_BRANCH == 1
CATEGORY_LEVEL_LEAF == 2
VALID_CATEGORY_LEVELS ==
    {CATEGORY_LEVEL_TRUNK, CATEGORY_LEVEL_BRANCH, CATEGORY_LEVEL_LEAF}

NoParent == 0        \* Category.parent_id NULL

(* A key the request body does not have; bool(x) of a request value. *)
AbsentV == [t |-> "absent", v |-> 0]
IsAbsent(x) == x.t = "absent"
Falsy(x) == IsNone(x) \/ (x.t = "int" /\ x.v = 0) \/ (x.t = "str" /\ x.v = "")

(* int(data['level']) raising TypeError (null) or ValueError. *)
LevelRaises(x) == IsNone(x) \/ IntRaises(x)

Category(name, level, parent_id, is_active) ==
    [name |-> name, level |-> level, parent_id |-> parent_id, is_active |-> is_active]

(* One path of the seeded hierarchy, and the products on its leaf. *)
SeedCategories ==
    (1 :> Category("Electronics", CATEGORY_LEVEL_TRUNK, NoParent, TRUE))
    @@ (2 :> Category("Computers", CATEGORY_LEVEL_BRANCH, 1, TRUE))
    @@ (3 :> Category("Laptops", CATEGORY_LEVEL_LEAF, 2, TRUE))
ProductCategory == (1 :> 3) @@ (2 :> 3)

(* category.children read as empty. *)
NoChildren(table, id) == {}
(* category.children (backref of parent) and category.products *)
Children(table, id) == {c \in DOMAIN table : table[c].parent_id = id}
ProductsOf(id) == {p \in DOMAIN ProductCategory : ProductCategory[p] = id}

(* unique_category_name on (name, parent_id, level); a NULL parent_id never *)
(* equals another in the database's unique index.                          *)
UniqueCategoryName(table) ==
    \A a, b \in DOMAIN table :
        (/\ a # b
         /\ table[a].name = table[b].name
         /\ table[a].level = table[b].level
         /\ table[a].parent_id = table[b].parent_id)
            => table[a].parent_id = NoParent

Stored(resp) == [resp |-> resp, table |-> categories, next_id |-> next_category_id]

(* db.session.commit() of category writes, with the rollback of the except *)
(* clause when it raises: the constraint is violated or the database fails. *)
CommitCategories(s, commit_ok, failure) ==
    IF commit_ok /\ UniqueCategoryName(s.table) THEN s ELSE Stored(failure)

(* The parent-level check of a move that accepts every parent. *)
AnyParentLevel(level, parent_level) == FALSE
LevelMismatch(level, parent_level) ==
    \/ level = CATEGORY_LEVEL_BRANCH /\ parent_level # CATEGORY_LEVEL_TRUNK
    \/ level = CATEGORY_LEVEL_LEAF /\ parent_level # CATEGORY_LEVEL_BRANCH

(* create_category *)
create_category_result(data, commit_ok) ==
    LET op == "create_category"
        parent_id == data.parent_id
    IN
    IF IsAbsent(data.name) \/ IsAbsent(data.level)
    THEN Stored(Response(op, 400, "Missing required fields"))
    ELSE IF LevelRaises(data.level)
    THEN Stored(Response(op, 400, "Invalid category level format"))
    ELSE LET category_level == IntOf(data.level) IN
    IF category_level \notin VALID_CATEGORY_LEVELS
    THEN Stored(Response(op, 400, "Invalid category level"))
    ELSE IF category_level = CATEGORY_LEVEL_TRUNK /\ ~IsNone(parent_id)
    THEN Stored(Response(op, 400, "Trunk categories cannot have a parent"))
    ELSE IF category_level = CATEGORY_LEVEL_BRANCH /\ Falsy(parent_id)
    THEN Stored(Response(op, 400, "Branch categories require a trunk parent"))
    ELSE IF category_level = CATEGORY_LEVEL_LEAF /\ Falsy(parent_id)
    THEN Stored(Response(op, 400, "Leaf categories require a branch parent"))
    ELSE IF ~Falsy(parent_id) /\ parent_id.v \notin DOMAIN categories
    THEN Stored(Response(op, 404, "Parent category not found"))
    ELSE IF ~Falsy(parent_id)
            /\ LevelMismatch(category_level, categories[parent_id.v].level)
    THEN Stored(Response(op, 400, "Invalid parent category level"))
    ELSE LET category == Category(data.name.v, category_level,
                                  IF Falsy(parent_id) THEN NoParent ELSE parent_id.v,
                                  TRUE)
         IN CommitCategories(
                [resp |-> [Response(op, 201, "created")
                              EXCEPT !.updated = <<next_category_id>>],
                 table |-> categories @@ (next_category_id :> category),
                 next_id |-> next_category_id + 1],
                commit_ok, Response(op, 500, "error"))

(* update_category *)
update_category_result(category_id, data, commit_ok) ==
    LET op == "update_category" IN
    IF category_id \notin DOMAIN categories
    THEN Stored(Response(op, 404, "Not Found"))
    ELSE LET category == categories[category_id] IN
    IF ~IsAbsent(data.level) /\ LevelRaises(data.level)
    THEN Stored(Response(op, 400, "Invalid category level format"))
    ELSE IF ~IsAbsent(data.level) /\ IntOf(data.level) \notin VALID_CATEGORY_LEVELS
    THEN Stored(Response(op, 400, "Invalid category level"))
    ELSE IF /\ ~IsAbsent(data.level)
            /\ IntOf(data.level) # category.level
            /\ Children(categories, category_id) # {}
    THEN Stored(Response(op, 400, "Cannot change level of category with children"))
    ELSE LET updated ==
                 [category EXCEPT
                     !.level = IF IsAbsent(data.level) THEN @ ELSE IntOf(data.level),
                     !.name = IF IsAbsent(data.name) THEN @ ELSE data.name.v,
                     !.is_active = IF IsAbsent(data.is_active) THEN @
                                   ELSE data.is_active.v]
         IN CommitCategories(
                [resp |-> [Response(op, 200, "updated") EXCEPT !.updated = <<category_id>>],
                 table |-> [categories EXCEPT ![category_id] = updated],
                 next_id |-> next_category_id],
                commit_ok, Response(op, 500, "error"))

Remove(table, id) == [c \in DOMAIN table \ {id} |-> table[c]]

(* delete_category *)
delete_category_result(category_id, commit_ok) ==
    LET op == "delete_category" IN
    IF category_id \notin DOMAIN categories
    THEN Stored(Response(op, 404, "Not Found"))
    ELSE IF Children(categories, category_id) # {}
    THEN Stored(Response(op, 400, "Cannot delete category with subcategories"))
    ELSE IF ProductsOf(category_id) # {}
    THEN Stored(Response(op, 400, "Cannot delete category with products"))
    ELSE CommitCategories(
             [resp |-> [Response(op, 200, "Category deleted successfully")
                           EXCEPT !.updated = <<category_id>>],
              table |-> Remove(categories, category_id),
              next_id |-> next_category_id],
             commit_ok, Response(op, 500, "error"))

(* bulk_update_categories *)
CategoryError(category_id, error) == [category_id |-> category_id, error |-> error]
Processed(s, category_id, table) ==
    [s EXCEPT !.table = table, !.resp.updated = Append(@, category_id)]
Refused(s, category_id, error) ==
    [s EXCEPT !.resp.errors = Append(@, CategoryError(category_id, error))]

(* Lines 724-776: one pass of the loop body over the session state. *)
BulkCategoryStep(s, operation, category_id, new_parent_id) ==
    IF category_id \notin DOMAIN s.table
    THEN Refused(s, category_id, "Category not found")
    ELSE LET category == s.table[category_id] IN
    CASE operation = "activate" ->
           Processed(s, category_id, [s.table EXCEPT ![category_id].is_active = TRUE])
      [] operation = "deactivate" ->
           IF ProductsOf(category_id) # {}
           THEN Refused(s, category_id, "Cannot deactivate category with products")
           ELSE Processed(s, category_id,
                          [s.table EXCEPT ![category_id].is_active = FALSE])
      [] operation = "delete" ->
           IF Children(s.table, category_id) # {}
           THEN Refused(s, category_id, "Cannot delete category with subcategories")
           ELSE IF ProductsOf(category_id) # {}
           THEN Refused(s, category_id, "Cannot delete category with products")
           ELSE Processed(s, category_id, Remove(s.table, category_id))
      [] operation = "move" ->
           IF Falsy(new_parent_id)
           THEN Refused(s, category_id, "new_parent_id required for move operation")
           ELSE IF new_parent_id.v \notin DOMAIN s.table
           THEN Refused(s, category_id, "New parent category not found")
           ELSE IF category.level = CATEGORY_LEVEL_TRUNK
           THEN Refused(s, category_id, "Cannot move trunk categories")
           ELSE IF LevelMismatch(category.level, s.table[new_parent_id.v].level)
           THEN Refused(s, category_id, "Invalid parent category level")
           ELSE Processed(s, category_id,
                          [s.table EXCEPT ![category_id].parent_id = new_parent_id.v])

RECURSIVE BulkCategoryLoop(_, _, _, _, _)
BulkCategoryLoop(s, operation, category_ids, i, new_parent_id) ==
    IF i > Len(category_ids) THEN s
    ELSE BulkCategoryLoop(
             BulkCategoryStep(s, operation, category_ids[i], new_parent_id),
             operation, category_ids, i + 1, new_parent_id)

bulk_update_categories_result(data, commit_ok) ==
    LET op == "bulk_update_categories" IN
    IF Falsy(data.operation) \/ data.category_ids = <<>>
    THEN Stored(Response(op, 400, "operation and category_ids are required"))
    ELSE IF data.operation.v \notin {"activate", "deactivate", "move", "delete"}
    THEN Stored(Response(op, 400, "Invalid operation"))
    ELSE LET s == BulkCategoryLoop(Stored(Response(op, 200, "Bulk completed")),
                                   data.operation.v, data.category_ids, 1,
                                   data.new_parent_id)
         IN IF s.resp.updated # <<>>
            THEN CommitCategories(s, commit_ok,
                                  Response(op, 500, "Error performing bulk operation"))
            ELSE Stored(s.resp)

(* Request inputs of the category handlers.  Creation is tried with every *)
(* payload; renaming and deactivation are tried on the category created    *)
(* last, level changes and moves on every id.                              *)
CategoryIds == 1..(MaxCategories + 1)      \* the last one is never stored
BoolV(b) == [t |-> "bool", v |-> b]
NameInputs == {AbsentV, StrV("Laptops"), StrV("Electronics")}
LevelInputs == {AbsentV, NoneV, IntV(0), IntV(1), IntV(2), IntV(3), StrV("abc"), HalfV(1)}
ParentInputs == {NoneV, IntV(0)} \cup {IntV(c) : c \in CategoryIds}
CreateData == [name : NameInputs, level : LevelInputs, parent_id : ParentInputs]
UpdateRequest(category_id, level, name, is_active) ==
    [category_id |-> category_id,
     data |-> [level |-> level, name |-> name, is_active |-> is_active]]
UpdateRequests ==
    {UpdateRequest(c, l, AbsentV, AbsentV) : c \in CategoryIds, l \in LevelInputs}
    \cup {UpdateRequest(MaxCategories, AbsentV, StrV("Laptops"), AbsentV),
          UpdateRequest(MaxCategories, AbsentV, AbsentV, BoolV(FALSE))}
CategoryIdLists ==
    {<<>>} \cup {<<a>> : a \in CategoryIds} \cup {<<a, b>> : a, b \in CategoryIds}
BulkData(operation, category_ids, new_parent_id) ==
    [operation |-> operation, category_ids |-> category_ids,
     new_parent_id |-> new_parent_id]
BulkCategoryData ==
    {BulkData(o, <<MaxCategories - 1, MaxCategories>>, NoneV) :
        o \in {NoneV, StrV("activate"), StrV("deactivate"), StrV("rename")}}
    \cup {BulkData(StrV("delete"), ids, NoneV) : ids \in CategoryIdLists}
    \cup {BulkData(StrV("move"), ids, p) : ids \in CategoryIdLists, p \in ParentInputs}

CommitCategory(out) ==
    /\ out.next_id <= MaxCategories + 1
    /\ categories' = out.table
    /\ next_category_id' = out.next_id
    /\ category_changes' =
          IF out.resp.updated # <<>> /\ out.resp.code < 400
          THEN category_changes + 1 ELSE category_changes
    /\ category_changes' <= MaxCategoryChanges
    /\ UNCHANGED <<stock_vars, verification_vars, subscription_vars, session_vars, last>>

create_category ==
    \E data \in CreateData, commit_ok \in BOOLEAN :
        CommitCategory(create_category_result(data, commit_ok))

update_category ==
    \E req \in UpdateRequests, commit_ok \in BOOLEAN :
        CommitCategory(update_category_result(req.category_id, req.data, commit_ok))

delete_category ==
    \E category_id \in CategoryIds, commit_ok \in BOOLEAN :
        CommitCategory(delete_category_result(category_id, commit_ok))

bulk_update_categories ==
    \E data \in BulkCategoryData, commit_ok \in BOOLEAN :
        CommitCategory(bulk_update_categories_result(data, commit_ok))

----------------------------------------------------------------------------
(* Shop verification: models/shop_model.py, the OTP and verification       *)
(* handlers of routes/seller_routes.py and the shop handlers of            *)
(* routes/admin_routes.py.  Time is a clock counted in OTP lifetimes.      *)

PENDING == "pending"
UNDER_REVIEW == "under_review"
VERIFIED == "verified"
REJECTED == "rejected"
SUSPENDED == "suspended"
VerificationStatus == {PENDING, UNDER_REVIEW, VERIFIED, REJECTED, SUSPENDED}

NoTime == -1         \* a DateTime column that is NULL
NoUser == 0          \* Shop.verified_by NULL
NoText == "None"     \* Shop.rejection_reason NULL

Shop(verification_status, phone_verified, email_verified) ==
    [verification_status |-> verification_status,
     phone_verified |-> phone_verified,
     email_verified |-> email_verified,
     verification_requested_at |-> NoTime,
     verified_at |-> NoTime,
     verified_by |-> NoUser,
     rejection_reason |-> NoText]

(* Shop 1 is new; shop 2 was stored with both contacts verified.  Both     *)
(* have a phone number and an email address.                               *)
SeedShops == (1 :> Shop(PENDING, FALSE, FALSE)) @@ (2 :> Shop(PENDING, TRUE, TRUE))

OtpTypes == {"phone", "email"}
OtpCodes == {"111111", "222222"}

(* generate_password_hash / check_password_hash *)
PasswordHash(otp_code) == <<"hash", otp_code>>
CheckPasswordHash(otp_hash, otp_code) == otp_hash = PasswordHash(otp_code)

expires_in == 1      \* the lifetime of an OTP, the unit of the clock

VerificationOTP(shop_id, otp_type, otp_hash, expires_at) ==
    [shop_id |-> shop_id, otp_type |-> otp_type, otp_hash |-> otp_hash,
     expires_at |-> expires_at, verified_at |-> NoTime, is_used |-> FALSE]

(* The handler's write of the flag left out. *)
KeepFlag(shop, otp_type) == shop

(* The flag of a shop that an OTP type verifies. *)
Flag(shop, otp_type) ==
    IF otp_type = "phone" THEN shop.phone_verified ELSE shop.email_verified
SetFlag(shop, otp_type) ==
    IF otp_type = "phone" THEN [shop EXCEPT !.phone_verified = TRUE]
    ELSE [shop EXCEPT !.email_verified = TRUE]

(* The session of a verification request: its response and the rows. *)
Kept(resp) == [resp |-> resp, shops |-> shops, otps |-> otps]

(* create_otp without its first statement: the earlier OTPs stay unused. *)
CreateOtpKeepingOld(table, shop_id, otp_type, otp_code) ==
    Append(table,
           VerificationOTP(shop_id, otp_type, PasswordHash(otp_code), now + expires_in))
(* VerificationOTP.create_otp up to its commit: the unused OTPs of the     *)
(* pair are marked used and the new row is added.                          *)
create_otp(table, shop_id, otp_type, otp_code) ==
    Append([i \in 1..Len(table) |->
               IF /\ table[i].shop_id = shop_id
                  /\ table[i].otp_type = otp_type
                  /\ ~table[i].is_used
               THEN [table[i] EXCEPT !.is_used = TRUE]
               ELSE table[i]],
           VerificationOTP(shop_id, otp_type, PasswordHash(otp_code), now + expires_in))

(* VerificationOTP.get_active_otp: the unused, unexpired rows of the pair, *)
(* the newest first; 0 when there is none.                                 *)
ActiveOtps(table, shop_id, otp_type) ==
    {i \in 1..Len(table) :
        /\ table[i].shop_id = shop_id
        /\ table[i].otp_type = otp_type
        /\ ~table[i].is_used
        /\ table[i].expires_at > now}
get_active_otp(table, shop_id, otp_type) ==
    LET active == ActiveOtps(table, shop_id, otp_type) IN
    IF active = {} THEN 0 ELSE CHOOSE i \in active : \A j \in active : j <= i

(* verify_otp without its check of the code. *)
AcceptAnyCode(otp, otp_code) ==
    IF otp.is_used THEN "OTP has already been used"
    ELSE IF now > otp.expires_at THEN "OTP has expired"
    ELSE ""
(* VerificationOTP.verify_otp before its writes: the failure message, or   *)
(* "" when the code is accepted.                                           *)
verify_otp_refusal(otp, otp_code) ==
    IF otp.is_used THEN "OTP has already been used"
    ELSE IF now > otp.expires_at THEN "OTP has expired"
    ELSE IF ~CheckPasswordHash(otp.otp_hash, otp_code) THEN "Invalid OTP code"
    ELSE ""

(* seller = User.query.get(seller_id); shop = seller.shop, with the        *)
(* responses of the checks every seller handler starts with ("" when the   *)
(* seller has a shop).                                                     *)
SellerRefusal(op, seller_id) ==
    IF seller_id = 0 THEN Response(op, 400, "Seller ID is required")
    ELSE IF seller_id \notin DOMAIN UserRole \/ UserRole[seller_id] # "seller"
    THEN Response(op, 404, "Seller not found")
    ELSE IF ShopOf(seller_id) = NoShop
    THEN Response(op, 404, "Shop not found for this seller")
    ELSE Response(op, 0, "")

(* request_phone_otp / request_email_otp *)
request_otp_result(otp_type, seller_id, otp_code, commit_ok) ==
    LET op == "request_" \o otp_type \o "_otp"
        refusal == SellerRefusal(op, seller_id)
        shop_id == ShopOf(seller_id)
    IN
    IF refusal.code # 0 THEN Kept(refusal)
    ELSE IF Flag(shops[shop_id], otp_type)
    THEN Kept(Response(op, 400, "already verified"))
    ELSE IF ~commit_ok THEN Kept(Response(op, 500, "Error requesting OTP"))
    ELSE [resp |-> [Response(op, 200, "OTP sent") EXCEPT !.updated = <<shop_id>>],
          shops |-> shops,
          otps |-> create_otp(otps, shop_id, otp_type, otp_code)]

(* verify_phone_otp / verify_email_otp: verify_otp commits the OTP, the    *)
(* handler then sets the shop's flag and commits again.                    *)
verify_otp_result(otp_type, seller_id, otp_code, otp_commit_ok, shop_commit_ok) ==
    LET op == "verify_" \o otp_type \o "_otp"
        refusal == SellerRefusal(op, seller_id)
        shop_id == ShopOf(seller_id)
    IN
    IF seller_id = 0 THEN Kept(refusal)
    ELSE IF otp_code = "" THEN Kept(Response(op, 400, "OTP code is required"))
    ELSE IF refusal.code # 0 THEN Kept(refusal)
    ELSE LET otp_record == get_active_otp(otps, shop_id, otp_type) IN
    IF otp_record = 0 THEN Kept(Response(op, 404, "No active OTP found"))
    ELSE LET message == verify_otp_refusal(otps[otp_record], otp_code) IN
    IF message # "" THEN Kept(Response(op, 400, message))
    ELSE IF ~otp_commit_ok THEN Kept(Response(op, 500, "Error verifying OTP"))
    ELSE LET used == [otps EXCEPT ![otp_record].is_used = TRUE,
                                  ![otp_record].verified_at = now]
         IN IF ~shop_commit_ok
            THEN [resp |-> Response(op, 500, "Error verifying OTP"),
                  shops |-> shops, otps |-> used]
            ELSE [resp |-> [Response(op, 200, "verified") EXCEPT !.updated = <<shop_id>>],
                  shops |-> [shops EXCEPT ![shop_id] = SetFlag(@, otp_type)],
                  otps |-> used]

(* request_verification without its two checks of the status. *)
RequestVerificationAnyStatus(seller_id, commit_ok) ==
    LET op == "request_verification"
        refusal == SellerRefusal(op, seller_id)
        shop_id == ShopOf(seller_id)
    IN
    IF refusal.code # 0 THEN Kept(refusal)
    ELSE LET shop == shops[shop_id] IN
    IF ~shop.phone_verified
    THEN Kept(Response(op, 400, "Phone must be verified"))
    ELSE IF ~shop.email_verified
    THEN Kept(Response(op, 400, "Email must be verified"))
    ELSE IF ~commit_ok THEN Kept(Response(op, 500, "Error requesting verification"))
    ELSE [resp |-> [Response(op, 200, "submitted") EXCEPT !.updated = <<shop_id>>],
          shops |-> [shops EXCEPT ![shop_id].verification_status = PENDING,
                                  ![shop_id].verification_requested_at = now],
          otps |-> otps]
(* request_verification *)
request_verification_result(seller_id, commit_ok) ==
    LET op == "request_verification"
        refusal == SellerRefusal(op, seller_id)
        shop_id == ShopOf(seller_id)
    IN
    IF refusal.code # 0 THEN Kept(refusal)
    ELSE LET shop == shops[shop_id] IN
    IF ~shop.phone_verified
    THEN Kept(Response(op, 400, "Phone must be verified"))
    ELSE IF ~shop.email_verified
    THEN Kept(Response(op, 400, "Email must be verified"))
    ELSE IF shop.verification_status = VERIFIED
    THEN Kept(Response(op, 400, "Shop is already verified"))
    ELSE IF shop.verification_status = UNDER_REVIEW
    THEN Kept(Response(op, 400, "Shop verification is already under review"))
    ELSE IF ~commit_ok THEN Kept(Response(op, 500, "Error requesting verification"))
    ELSE [resp |-> [Response(op, 200, "submitted") EXCEPT !.updated = <<shop_id>>],
          shops |-> [shops EXCEPT ![shop_id].verification_status = PENDING,
                                  ![shop_id].verification_requested_at = now],
          otps |-> otps]

(* admin = User.query.get(admin_id) and the checks every single-shop admin *)
(* handler starts with ("" when the caller is an admin and the shop is     *)
(* stored).                                                                *)
IsAdmin(user_id) == user_id \in DOMAIN UserRole /\ UserRole[user_id] = "admin"
AdminRefusal(op, shop_id, admin_id) ==
    IF admin_id = 0 THEN Response(op, 400, "Admin ID is required")
    ELSE IF ~IsAdmin(admin_id) THEN Response(op, 403, "Admin not found or unauthorized")
    ELSE IF shop_id \notin DOMAIN shops THEN Response(op, 404, "Shop not found")
    ELSE Response(op, 0, "")

(* verify_shop's writes without the reset of rejection_reason. *)
VerifyKeepingReason(shop, admin_id) ==
    [shop EXCEPT !.verification_status = VERIFIED, !.verified_at = now,
                 !.verified_by = admin_id]
(* reject_shop's writes without the reset of verified_at and verified_by. *)
RejectKeepingVerifier(shop, rejection_reason) ==
    [shop EXCEPT !.verification_status = REJECTED, !.rejection_reason = rejection_reason]
(* The writes of the admin transitions to one shop row. *)
Verify(shop, admin_id) ==
    [shop EXCEPT !.verification_status = VERIFIED, !.verified_at = now,
                 !.verified_by = admin_id, !.rejection_reason = NoText]
Reject(shop, rejection_reason) ==
    [shop EXCEPT !.verification_status = REJECTED, !.rejection_reason = rejection_reason,
                 !.verified_by = NoUser, !.verified_at = NoTime]
Suspend(shop) == [shop EXCEPT !.verification_status = SUSPENDED]
UnderReview(shop) == [shop EXCEPT !.verification_status = UNDER_REVIEW]
BulkUnderReview(shop) ==
    [shop EXCEPT !.verification_status = UNDER_REVIEW, !.rejection_reason = NoText]

(* db.session.commit() of shop rows: it raises when verified_by references *)
(* no stored user, or when the database fails.                             *)
CommitShops(s, commit_ok, failure) ==
    IF /\ commit_ok
       /\ \A id \in DOMAIN s.shops :
             s.shops[id].verified_by \in DOMAIN UserRole \cup {NoUser}
    THEN s ELSE Kept(failure)

AdminWrite(op, shop_id, admin_id, row, commit_ok) ==
    LET refusal == AdminRefusal(op, shop_id, admin_id) IN
    IF refusal.code # 0 THEN Kept(refusal)
    ELSE CommitShops([resp |-> [Response(op, 200, "done") EXCEPT !.updated = <<shop_id>>],
                      shops |-> [shops EXCEPT ![shop_id] = row],
                      otps |-> otps],
                     commit_ok, Response(op, 500, "Error"))

(* verify_shop, suspend_shop, put_shop_under_review *)
verify_shop_result(shop_id, admin_id, commit_ok) ==
    AdminWrite("verify_shop", shop_id, admin_id,
               IF shop_id \in DOMAIN shops THEN Verify(shops[shop_id], admin_id) ELSE <<>>,
               commit_ok)
suspend_shop_result(shop_id, admin_id, commit_ok) ==
    AdminWrite("suspend_shop", shop_id, admin_id,
               IF shop_id \in DOMAIN shops THEN Suspend(shops[shop_id]) ELSE <<>>,
               commit_ok)
put_shop_under_review_result(shop_id, admin_id, commit_ok) ==
    AdminWrite("put_shop_under_review", shop_id, admin_id,
               IF shop_id \in DOMAIN shops THEN UnderReview(shops[shop_id]) ELSE <<>>,
               commit_ok)

(* reject_shop *)
reject_shop_result(shop_id, admin_id, reason, commit_ok) ==
    LET op == "reject_shop"
        rejection_reason == Strip(reason)
    IN
    IF admin_id = 0 THEN Kept(Response(op, 400, "Admin ID is required"))
    ELSE IF rejection_reason = ""
    THEN Kept(Response(op, 400, "Rejection reason is required"))
    ELSE AdminWrite(op, shop_id, admin_id,
                    IF shop_id \in DOMAIN shops
                    THEN Reject(shops[shop_id], rejection_reason) ELSE <<>>,
                    commit_ok)

(* bulk_verify_shops *)
ShopError(shop_id, error) == [shop_id |-> shop_id, error |-> error]
BulkShopStep(s, action, shop_id, admin_id, rejection_reason) ==
    IF shop_id \notin DOMAIN s.shops
    THEN [s EXCEPT !.resp.errors = Append(@, ShopError(shop_id, "Shop not found"))]
    ELSE LET shop == s.shops[shop_id]
             row == CASE action = "verify" -> Verify(shop, admin_id)
                      [] action = "reject" -> Reject(shop, rejection_reason)
                      [] action = "under_review" -> BulkUnderReview(shop)
         IN [s EXCEPT !.shops[shop_id] = row, !.resp.updated = Append(@, shop_id)]

RECURSIVE BulkShopLoop(_, _, _, _, _, _)
BulkShopLoop(s, action, shop_ids, i, admin_id, rejection_reason) ==
    IF i > Len(shop_ids) THEN s
    ELSE BulkShopLoop(BulkShopStep(s, action, shop_ids[i], admin_id, rejection_reason),
                      action, shop_ids, i + 1, admin_id, rejection_reason)

bulk_verify_shops_result(data, commit_ok) ==
    LET op == "bulk_verify_shops" IN
    IF data.action = "" \/ data.shop_ids = <<>>
    THEN Kept(Response(op, 400, "action and shop_ids are required"))
    ELSE IF data.action \notin {"verify", "reject", "under_review"}
    THEN Kept(Response(op, 400, "Invalid action"))
    ELSE IF data.action = "reject" /\ data.rejection_reason = ""
    THEN Kept(Response(op, 400, "rejection_reason is required for reject action"))
    ELSE LET s == BulkShopLoop(Kept(Response(op, 200, "Bulk shop action completed")),
                               data.action, data.shop_ids, 1,
                               data.admin_id, data.rejection_reason)
         IN IF s.resp.updated # <<>>
            THEN CommitShops(s, commit_ok,
                             Response(op, 500, "Error performing bulk shop verification"))
            ELSE s

(* Request inputs of the verification handlers. *)
AdminIds == {0, 3, 5, 9}           \* 0: no admin_id given; 9: no such user
ShopIdInputs == {1, 2, 3}          \* 3: no such shop
OtpInputs == OtpCodes \cup {""}
ReasonInputs == {"", " ", " no licence "}
ShopIdLists == {<<>>, <<1>>, <<2>>, <<3>>, <<1, 2>>, <<3, 1>>, <<1, 1>>}
BulkShopData(action, shop_ids, rejection_reason, admin_id) ==
    [action |-> action, shop_ids |-> shop_ids,
     rejection_reason |-> rejection_reason, admin_id |-> admin_id]
BulkShopRequests ==
    {BulkShopData(a, <<1>>, "", 5) : a \in {"", "suspend"}}
    \cup {BulkShopData("verify", ids, "", by) : ids \in ShopIdLists, by \in AdminIds}
    \cup {BulkShopData("under_review", ids, "", 5) : ids \in ShopIdLists}
    \cup {BulkShopData("reject", ids, r, 5) : ids \in ShopIdLists, r \in ReasonInputs}

CommitVerification(out) ==
    /\ shops' = out.shops
    /\ otps' = out.otps
    /\ shop_changes' =
          IF out.shops # shops \/ out.otps # otps THEN shop_changes + 1 ELSE shop_changes
    /\ shop_changes' <= MaxShopChanges
    /\ UNCHANGED <<now, stock_vars, category_vars, subscription_vars, session_vars, last>>

request_otp ==
    \E otp_type \in OtpTypes, seller_id \in SellerIds, otp_code \in OtpCodes,
       commit_ok \in BOOLEAN :
        CommitVerification(request_otp_result(otp_type, seller_id, otp_code, commit_ok))

verify_otp ==
    \E otp_type \in OtpTypes, seller_id \in SellerIds, otp_code \in OtpInputs,
       otp_commit_ok \in BOOLEAN, shop_commit_ok \in BOOLEAN :
        CommitVerification(verify_otp_result(otp_type, seller_id, otp_code,
                                             otp_commit_ok, shop_commit_ok))

request_verification ==
    \E seller_id \in SellerIds, commit_ok \in BOOLEAN :
        CommitVerification(request_verification_result(seller_id, commit_ok))

verify_shop ==
    \E shop_id \in ShopIdInputs, admin_id \in AdminIds, commit_ok \in BOOLEAN :
        CommitVerification(verify_shop_result(shop_id, admin_id, commit_ok))

reject_shop ==
    \E shop_id \in ShopIdInputs, admin_id \in AdminIds, reason \in ReasonInputs,
       commit_ok \in BOOLEAN :
        CommitVerification(reject_shop_result(shop_id, admin_id, reason, commit_ok))

suspend_shop ==
    \E shop_id \in ShopIdInputs, admin_id \in AdminIds, commit_ok \in BOOLEAN :
        CommitVerification(suspend_shop_result(shop_id, admin_id, commit_ok))

put_shop_under_review ==
    \E shop_id \in ShopIdInputs, admin_id \in AdminIds, commit_ok \in BOOLEAN :
        CommitVerification(put_shop_under_review_result(shop_id, admin_id, commit_ok))

bulk_verify_shops ==
    \E data \in BulkShopRequests, commit_ok \in BOOLEAN :
        CommitVerification(bulk_verify_shops_result(data, commit_ok))

(* Time passes. *)
Tick ==
    /\ now < MaxTime
    /\ now' = now + 1
    /\ UNCHANGED <<shops, otps, shop_changes, stock_vars, category_vars,
                   subscription_vars, session_vars, last>>

----------------------------------------------------------------------------
(* Subscriptions: models/subscription_model.py and toggle_subscription of  *)
(* routes/admin_routes.py.                                                 *)

SUBSCRIPTION_TYPE_USER == "user"
SUBSCRIPTION_TYPE_PRODUCT == "product"
SUBSCRIPTION_TYPE_SHOP == "shop"
VALID_SUBSCRIPTION_TYPES ==
    {SUBSCRIPTION_TYPE_USER, SUBSCRIPTION_TYPE_PRODUCT, SUBSCRIPTION_TYPE_SHOP}

(* datetime.fromisoformat(s.replace('Z', '+23:59')): the date and the UTC  *)
(* offset of a well-formed text; other texts raise ValueError.             *)
IsoDates ==
    ("2026-01-01" :> [date |-> "2026-01-01", offset |-> "none"])
    @@ ("2026-12-31Z" :> [date |-> "2026-12-31", offset |-> "+23:59"])
FromIsoFormatRaises(text) == text \notin DOMAIN IsoDates
FromIsoFormat(text) == IsoDates[text]

(* The column default of start_date: the time the model class was defined. *)
DefaultStartDate == [date |-> "process start", offset |-> "+00:00"]

Subscription(subscription_type, target_id, end_date, created_by) ==
    [subscription_type |-> subscription_type, target_id |-> target_id,
     start_date |-> DefaultStartDate, end_date |-> end_date,
     is_active |-> TRUE, created_by |-> created_by]

(* UniqueConstraint('subscription_type', 'target_id', 'is_active') and the *)
(* foreign key of created_by.                                              *)
UniqueActiveSubscription(table) ==
    \A i, j \in 1..Len(table) :
        (/\ table[i].subscription_type = table[j].subscription_type
         /\ table[i].target_id = table[j].target_id
         /\ table[i].is_active = table[j].is_active) => i = j
CreatorStored(table) ==
    \A i \in 1..Len(table) : table[i].created_by \in DOMAIN UserRole \cup {NoUser}

(* Subscription.get_active_subscription: an active row of the target, 0    *)
(* when there is none.                                                     *)
ActiveSubscriptions(table, subscription_type, target_id) ==
    {i \in 1..Len(table) :
        /\ table[i].subscription_type = subscription_type
        /\ table[i].target_id = target_id
        /\ table[i].is_active}
get_active_subscription(table, subscription_type, target_id) ==
    LET active == ActiveSubscriptions(table, subscription_type, target_id) IN
    IF active = {} THEN 0 ELSE CHOOSE i \in active : TRUE

(* Subscription.create_subscription without its UPDATE, its constraints    *)
(* dropped.                                                                *)
CreateSubscriptionUnchecked(table, subscription_type, target_id, end_date, created_by, commit_ok) ==
    [ok |-> TRUE,
     table |-> Append(table, Subscription(subscription_type, target_id, end_date, created_by))]

(* Subscription.create_subscription: the UPDATE of the target's active     *)
(* rows, which the unique constraint can refuse, then the INSERT and the   *)
(* commit.  ok is FALSE when a statement raised, with the table as stored. *)
create_subscription(table, subscription_type, target_id, end_date, created_by, commit_ok) ==
    LET updated == [i \in 1..Len(table) |->
                       IF i \in ActiveSubscriptions(table, subscription_type, target_id)
                       THEN [table[i] EXCEPT !.is_active = FALSE] ELSE table[i]]
        added == Append(updated,
                        Subscription(subscription_type, target_id, end_date, created_by))
    IN IF /\ UniqueActiveSubscription(updated)
          /\ UniqueActiveSubscription(added)
          /\ CreatorStored(added)
          /\ commit_ok
       THEN [ok |-> TRUE, table |-> added]
       ELSE [ok |-> FALSE, table |-> table]

(* Subscription.deactivate of a row of the table. *)
deactivate(table, i) == [table EXCEPT ![i].is_active = FALSE]

(* model_class.query.get(target_id) *)
TargetStored(target_type, target_id) ==
    CASE target_type = "user" -> target_id \in DOMAIN UserRole
      [] target_type = "product" -> target_id \in Products
      [] target_type = "shop" -> target_id \in DOMAIN shops

KeptSubscriptions(resp) == [resp |-> resp, subscriptions |-> subscriptions, premium |-> premium]

(* toggle_subscription.  create_ok: the commit inside create_subscription  *)
(* succeeds; commit_ok: the handler's own commit succeeds.                 *)
toggle_subscription_result(data, create_ok, commit_ok) ==
    LET op == "toggle_subscription"
        failure == KeptSubscriptions(Response(op, 500, "Error updating subscription"))
    IN
    IF data.target_type = "" \/ data.target_id = 0
    THEN KeptSubscriptions(Response(op, 400, "target_type and target_id are required"))
    ELSE IF data.target_type \notin {"user", "product", "shop"}
    THEN KeptSubscriptions(Response(op, 400, "target_type must be user, product, or shop"))
    ELSE IF ~TargetStored(data.target_type, data.target_id)
    THEN KeptSubscriptions(Response(op, 404, "not found"))
    ELSE LET flagged == IF data.target_type = "user"
                        THEN [premium EXCEPT ![data.target_id] = data.is_premium]
                        ELSE premium
             done == [Response(op, 200, "premium status updated")
                         EXCEPT !.updated = <<data.target_id>>]
    IN
    IF data.is_premium /\ data.start_date # "" /\ data.end_date # ""
    THEN IF FromIsoFormatRaises(data.start_date) \/ FromIsoFormatRaises(data.end_date)
         THEN failure
         ELSE LET created == create_subscription(subscriptions, data.target_type,
                                                 data.target_id,
                                                 FromIsoFormat(data.end_date),
                                                 data.admin_id, create_ok)
              IN IF ~created.ok THEN failure
                 ELSE IF ~commit_ok
                 THEN [resp |-> failure.resp, subscriptions |-> created.table,
                       premium |-> flagged]
                 ELSE [resp |-> done,
                       subscriptions |->
                           [created.table EXCEPT ![Len(created.table)].start_date =
                                                     FromIsoFormat(data.start_date)],
                       premium |-> flagged]
    ELSE IF ~data.is_premium
    THEN LET existing == get_active_subscription(subscriptions, data.target_type,
                                                 data.target_id)
             table == IF existing # 0 THEN deactivate(subscriptions, existing)
                      ELSE subscriptions
         IN IF commit_ok /\ UniqueActiveSubscription(table)
            THEN [resp |-> done, subscriptions |-> table, premium |-> flagged]
            ELSE failure
    ELSE IF commit_ok
    THEN [resp |-> done, subscriptions |-> subscriptions, premium |-> flagged]
    ELSE failure

(* Request inputs of the subscription operations. *)
TargetTypeInputs == {"", "user", "product", "shop", "coupon"}
TargetIdInputs == {0, 1, 9}        \* 0: no target_id given; 9: no such row
DateInputs == {"", "2026-01-01", "2026-12-31Z", "soon"}
ToggleData(target_type, target_id, is_premium, start_date, end_date, admin_id) ==
    [target_type |-> target_type, target_id |-> target_id, is_premium |-> is_premium,
     start_date |-> start_date, end_date |-> end_date, admin_id |-> admin_id]
ToggleRequests ==
    {ToggleData(t, id, p, "", "", 5) :
        t \in TargetTypeInputs, id \in TargetIdInputs, p \in BOOLEAN}
    \cup {ToggleData(t, 1, TRUE, "2026-01-01", e, by) :
            t \in {"user", "shop"}, e \in DateInputs, by \in {5, 9}}
    \cup {ToggleData("user", 1, p, s, "2026-12-31Z", 5) : p \in BOOLEAN, s \in {"", "soon"}}

CommitSubscription(out) ==
    /\ Len(out.subscriptions) <= MaxSubscriptions
    /\ subscriptions' = out.subscriptions
    /\ premium' = out.premium
    /\ UNCHANGED <<stock_vars, category_vars, verification_vars, session_vars, last>>

create_subscription_call ==
    \E subscription_type \in {SUBSCRIPTION_TYPE_USER, SUBSCRIPTION_TYPE_SHOP},
       target_id \in {1}, commit_ok \in BOOLEAN :
        LET created == create_subscription(subscriptions, subscription_type, target_id,
                                           FromIsoFormat("2026-12-31Z"), NoUser, commit_ok)
        IN CommitSubscription([resp |-> Response("create_subscription",
                                                 IF created.ok THEN 200 ELSE 500, ""),
                               subscriptions |-> created.table,
                               premium |-> premium])

toggle_subscription ==
    \E data \in ToggleRequests, create_ok \in BOOLEAN, commit_ok \in BOOLEAN :
        CommitSubscription(toggle_subscription_result(data, create_ok, commit_ok))

----------------------------------------------------------------------------
----------------------------------------------------------------------------
(* Concurrent requests.  Each request runs in its own database session    *)
(* (transaction) under PostgreSQL's READ COMMITTED: a statement sees the   *)
(* rows committed before it started, an UPDATE locks the rows it changes   *)
(* until its transaction ends, a statement that meets a locked row waits   *)
(* and then re-checks that row only, and the rows a transaction inserts    *)
(* are invisible to the others until it commits.                           *)
Sessions == 1..MaxSessions

----------------------------------------------------------------------------
(* Concurrent calls of VerificationOTP.create_otp for the shop of seller 1. *)
race_shop == ShopOf(1)

OtpSession(pc, otp_type, matched, locked) ==
    [pc |-> pc, otp_type |-> otp_type, matched |-> matched, locked |-> locked]
IdleOtpSession == OtpSession("idle", "phone", {}, {})

(* The rows the UPDATE's filter_by selects in the committed table. *)
UnusedRows(table, shop_id, otp_type) ==
    {i \in 1..Len(table) :
        /\ table[i].shop_id = shop_id
        /\ table[i].otp_type = otp_type
        /\ ~table[i].is_used}

(* The UPDATE starts: it takes its snapshot and selects the unused rows    *)
(* of the pair.                                                            *)
otp_scan(p) ==
    \E otp_type \in OtpTypes :
        /\ otp_sessions[p].pc = "idle"
        /\ Len(otps) + Cardinality({q \in Sessions : otp_sessions[q].pc # "idle"})
               < MaxOtps
        /\ otp_sessions' =
               [otp_sessions EXCEPT
                   ![p] = OtpSession("scanned", otp_type,
                                     UnusedRows(otps, race_shop, otp_type), {})]
        /\ UNCHANGED <<otps, shops, now, shop_changes, stock_vars, category_vars,
                       subscription_vars, stock_sessions, last>>

(* The UPDATE completes once no other session holds a lock on a selected   *)
(* row: it locks and marks the selected rows that are still unused.        *)
otp_update(p) ==
    /\ otp_sessions[p].pc = "scanned"
    /\ \A q \in Sessions \ {p} :
           otp_sessions[q].locked \cap otp_sessions[p].matched = {}
    /\ otp_sessions' =
           [otp_sessions EXCEPT
               ![p].pc = "updated",
               ![p].locked = {i \in otp_sessions[p].matched : ~otps[i].is_used}]
    /\ UNCHANGED <<otps, shops, now, shop_changes, stock_vars, category_vars,
                   subscription_vars, stock_sessions, last>>

(* db.session.add(otp): the new row is pending in the session. *)
otp_insert(p) ==
    /\ otp_sessions[p].pc = "updated"
    /\ otp_sessions' = [otp_sessions EXCEPT ![p].pc = "inserted"]
    /\ UNCHANGED <<otps, shops, now, shop_changes, stock_vars, category_vars,
                   subscription_vars, stock_sessions, last>>

(* db.session.commit(): the marks and the new row become visible and the   *)
(* locks are released; a failed commit rolls the transaction back.         *)
otp_commit(p) ==
    \E otp_code \in OtpCodes, commit_ok \in BOOLEAN :
        /\ otp_sessions[p].pc = "inserted"
        /\ otps' =
               IF commit_ok
               THEN Append([i \in 1..Len(otps) |->
                               IF i \in otp_sessions[p].locked
                               THEN [otps[i] EXCEPT !.is_used = TRUE]
                               ELSE otps[i]],
                           VerificationOTP(race_shop, otp_sessions[p].otp_type,
                                           PasswordHash(otp_code), now + expires_in))
               ELSE otps
        /\ otp_sessions' = [otp_sessions EXCEPT ![p] = IdleOtpSession]
        /\ UNCHANGED <<shops, now, shop_changes, stock_vars, category_vars,
                       subscription_vars, stock_sessions, last>>

----------------------------------------------------------------------------
(* Concurrent calls of update_stock by seller 1 on product 1, each with a  *)
(* stock_change.                                                           *)
race_seller == 1
race_product == 1
RaceChanges == {IntV(1), IntV(2)}
RaceData == [stock : {NoneV}, stock_change : RaceChanges, reason : {""}]

StockSession(pc, data, old_stock) ==
    [pc |-> pc, data |-> data, old_stock |-> old_stock]
IdleStockSession ==
    StockSession("idle", [stock |-> NoneV, stock_change |-> NoneV, reason |-> ""], 0)

(* The handler loads the product and reads product.stock. *)
stock_read(p) ==
    \E data \in RaceData :
        /\ stock_sessions[p].pc = "idle"
        /\ Len(stock_updates)
               + Cardinality({q \in Sessions : stock_sessions[q].pc # "idle"})
               < MaxRaceRows
        /\ stock_sessions' =
               [stock_sessions EXCEPT
                   ![p] = StockSession("read", data, product_stock[race_product])]
        /\ UNCHANGED <<stock_vars, category_vars, verification_vars,
                       subscription_vars, otp_sessions, last>>

(* product.stock = new_stock reaches the database as an UPDATE of the      *)
(* product row, which waits while another session holds the row's lock.    *)
stock_write(p) ==
    /\ stock_sessions[p].pc = "read"
    /\ \A q \in Sessions \ {p} : stock_sessions[q].pc # "written"
    /\ stock_sessions' = [stock_sessions EXCEPT ![p].pc = "written"]
    /\ UNCHANGED <<stock_vars, category_vars, verification_vars,
                   subscription_vars, otp_sessions, last>>

(* db.session.commit(): the stock computed from the value read and the     *)
(* StockUpdate row become visible; a failed commit is rolled back.         *)
stock_commit(p) ==
    \E commit_ok \in BOOLEAN :
        LET s == stock_sessions[p]
            calc == CalculateNewStock(s.old_stock, s.data)
            row == StockRow(race_product, s.old_stock, calc.new_stock,
                            calc.stock_change, race_seller,
                            AutoReason(s.data, s.old_stock))
        IN
        /\ s.pc = "written"
        /\ IF commit_ok
           THEN /\ product_stock' = [product_stock EXCEPT ![race_product] = calc.new_stock]
                /\ stock_updates' = Append(stock_updates, row)
                /\ row_source' = Append(row_source, Source("update_stock", s.data))
                /\ updates_ok' = [updates_ok EXCEPT ![race_product] = @ + 1]
           ELSE UNCHANGED stock_vars
        /\ stock_sessions' = [stock_sessions EXCEPT ![p] = IdleStockSession]
        /\ UNCHANGED <<category_vars, verification_vars, subscription_vars,
                       otp_sessions, last>>

----------------------------------------------------------------------------
Init ==
    /\ product_stock = InitialStock
    /\ stock_updates = <<>>
    /\ row_source = <<>>
    /\ updates_ok = [p \in Products |-> 0]
    /\ categories = SeedCategories
    /\ next_category_id = Cardinality(DOMAIN SeedCategories) + 1
    /\ category_changes = 0
    /\ shops = SeedShops
    /\ otps = <<>>
    /\ now = 0
    /\ shop_changes = 0
    /\ subscriptions = <<>>
    /\ premium = [u \in DOMAIN UserRole |-> FALSE]
    /\ otp_sessions = [p \in Sessions |-> IdleOtpSession]
    /\ stock_sessions = [p \in Sessions |-> IdleStockSession]
    /\ last = Summary(FALSE, 0, <<>>, Response("none", 0, ""))

NextStock == update_stock \/ bulk_update_stock
SpecStock == Init /\ [][NextStock]_vars

NextCategory ==
    create_category \/ update_category \/ delete_category \/ bulk_update_categories
SpecCategory == Init /\ [][NextCategory]_vars

NextVerification ==
    \/ request_otp \/ verify_otp \/ request_verification
    \/ verify_shop \/ reject_shop \/ suspend_shop \/ put_shop_under_review
    \/ bulk_verify_shops \/ Tick
SpecVerification == Init /\ [][NextVerification]_vars

NextSubscription == create_subscription_call \/ toggle_subscription
SpecSubscription == Init /\ [][NextSubscription]_vars

NextOtpRace ==
    \E p \in Sessions : otp_scan(p) \/ otp_update(p) \/ otp_insert(p) \/ otp_commit(p)
SpecOtpRace == Init /\ [][NextOtpRace]_vars

NextStockRace ==
    \E p \in Sessions : stock_read(p) \/ stock_write(p) \/ stock_commit(p)
SpecStockRace == Init /\ [][NextStockRace]_vars

Next ==
    \/ NextStock \/ NextCategory \/ NextVerification \/ NextSubscription
    \/ NextOtpRace \/ NextStockRace
Spec == Init /\ [][Next]_vars

----------------------------------------------------------------------------
(* Inventory ledger properties. *)

RowsOf(p) == SelectSeq(stock_updates, LAMBDA r : r.product_id = p)
Rows == 1..Len(stock_updates)
NewRows == (Len(stock_updates) + 1)..Len(stock_updates')
Max(a, b) == IF a >= b THEN a ELSE b
Clamped(i) ==
    /\ row_source[i].mode = "stock_change"
    /\ stock_updates[i].old_stock + row_source[i].value < 0

(* C3: Product.stock is never negative and no StockUpdate row has a        *)
(* negative new_stock, whatever integers update_stock and                  *)
(* bulk_update_stock are given in either mode.                             *)
C3_StockNeverNegative ==
    /\ \A p \in Products : product_stock[p] >= 0
    /\ \A i \in Rows : stock_updates[i].new_stock >= 0

(* C4: every StockUpdate row has new_stock = old_stock + stock_change, in  *)
(* absolute mode, in delta mode, and when the delta was clamped.           *)
C4_ChangeIsDifference ==
    \A i \in Rows :
        stock_updates[i].new_stock
            = stock_updates[i].old_stock + stock_updates[i].stock_change

C4_Witness ==
    \E i, j \in Rows :
        /\ Clamped(i)
        /\ row_source[j].mode = "stock"
        /\ row_source[i].op # row_source[j].op

(* C5: update_stock rejects a request that supplies both "stock" and       *)
(* "stock_change": no StockUpdate row of update_stock stems from such a    *)
(* request.                                                                *)
C5_ExactlyOneRequired ==
    \A i \in Rows :
        row_source[i].op = "update_stock" => row_source[i].mode # "both"

(* C6: each product's StockUpdate rows form a chain from its initial stock *)
(* to Product.stock, one row per mutation that reported success, also      *)
(* after failed mutations.                                                 *)
C6_HistoryChain ==
    \A p \in Products :
        LET rs == RowsOf(p) IN
        /\ Len(rs) = updates_ok[p]
        /\ product_stock[p] = IF rs = <<>> THEN InitialStock[p] ELSE rs[Len(rs)].new_stock
        /\ \A i \in 1..Len(rs) :
              rs[i].old_stock = IF i = 1 THEN InitialStock[p] ELSE rs[i - 1].new_stock

C6_Witness ==
    /\ Len(RowsOf(1)) = 2
    /\ row_source[1].op # row_source[2].op
    /\ last.code = 500

(* C7: a delta d applied to a stock s >= 0 records new_stock = max(0, s+d) *)
(* and stock_change = new_stock - s.                                       *)
C7_DeltaClamp ==
    \A i \in Rows :
        (row_source[i].mode = "stock_change" /\ stock_updates[i].old_stock >= 0) =>
            /\ stock_updates[i].new_stock
                 = Max(0, stock_updates[i].old_stock + row_source[i].value)
            /\ stock_updates[i].stock_change
                 = stock_updates[i].new_stock - stock_updates[i].old_stock

C7_Witness ==
    \E i, j \in Rows :
        /\ row_source[i].mode = "stock_change" /\ row_source[i].value = -2
        /\ stock_updates[i].old_stock = 1
        /\ stock_updates[i].new_stock = 0 /\ stock_updates[i].stock_change = -1
        /\ row_source[j].mode = "stock_change" /\ row_source[j].value = 1
        /\ stock_updates[j].new_stock = stock_updates[j].old_stock + 1

(* C8: a row written for a request without a reason has the reason its     *)
(* recorded change implies: restocked, goods sold, or stock adjusted.      *)
C8_DefaultReason ==
    \A i \in Rows :
        ~row_source[i].reason_given =>
            stock_updates[i].reason =
                IF stock_updates[i].new_stock > stock_updates[i].old_stock THEN "restocked"
                ELSE IF stock_updates[i].new_stock < stock_updates[i].old_stock
                     THEN "goods sold"
                ELSE "stock adjusted"

(* C9: a request of a seller that names a product of another shop is       *)
(* refused for that product, and every step that changes a product's stock *)
(* or adds a row for it is made by the owner of the product's shop.        *)
C9_OwnerOnly ==
    [][ /\ (last'.op = "update_stock" /\ last'.foreign) =>
              (last'.code = 404 /\ UNCHANGED stock_vars)
        /\ (last'.op = "bulk_update_stock" /\ last'.foreign) =>
              (last'.code # 200 /\ (last'.code = 207 => last'.errors >= 1))
        /\ \A i \in NewRows :
              ShopOwner[ProductShop[stock_updates'[i].product_id]]
                  = stock_updates'[i].updated_by
        /\ \A p \in Products :
              product_stock'[p] # product_stock[p] =>
                  \E i \in NewRows : stock_updates'[i].product_id = p
        /\ \A i \in Rows : stock_updates'[i] = stock_updates[i]
      ]_vars

C9_Witness ==
    /\ last.foreign /\ last.code \in {404, 207}
    /\ \E i, j \in Rows :
          stock_updates[i].product_id = 1 /\ stock_updates[j].product_id = 2

(* C10: a bulk request that completes applies exactly its individually     *)
(* valid items, one row each and in order, reports every other item as an  *)
(* error, and applied + errors = items.                                    *)
C10_ItemsIndependent ==
    [][ (last'.op = "bulk_update_stock" /\ last'.code \in {200, 207}) =>
          /\ last'.updated = last'.valid
          /\ Len(last'.updated) + last'.errors = last'.items
          /\ Len(stock_updates') = Len(stock_updates) + Len(last'.valid)
          /\ \A k \in 1..Len(last'.valid) :
                stock_updates'[Len(stock_updates) + k].product_id = last'.valid[k]
          /\ \A p \in Products :
                product_stock'[p] =
                    IF \E i \in NewRows : stock_updates'[i].product_id = p
                    THEN LET n == CHOOSE i \in NewRows :
                                    /\ stock_updates'[i].product_id = p
                                    /\ \A j \in NewRows :
                                          stock_updates'[j].product_id = p => j <= i
                         IN stock_updates'[n].new_stock
                    ELSE product_stock[p]
      ]_vars

----------------------------------------------------------------------------
(* Category tree properties. *)

(* C1: every stored category has a level in {0, 1, 2}; a TRUNK has no      *)
(* parent, a BRANCH has a stored TRUNK as parent and a LEAF a stored       *)
(* BRANCH.                                                                 *)
C1_LevelMatchesParent ==
    \A c \in DOMAIN categories :
        LET category == categories[c] IN
        /\ category.level \in VALID_CATEGORY_LEVELS
        /\ category.level = CATEGORY_LEVEL_TRUNK => category.parent_id = NoParent
        /\ category.level = CATEGORY_LEVEL_BRANCH =>
              /\ category.parent_id \in DOMAIN categories
              /\ categories[category.parent_id].level = CATEGORY_LEVEL_TRUNK
        /\ category.level = CATEGORY_LEVEL_LEAF =>
              /\ category.parent_id \in DOMAIN categories
              /\ categories[category.parent_id].level = CATEGORY_LEVEL_BRANCH

(* C2: every stored category that owns a product is a LEAF. *)
C2_OnlyLeavesOwnProducts ==
    \A c \in DOMAIN categories :
        ProductsOf(c) # {} => categories[c].level = CATEGORY_LEVEL_LEAF

----------------------------------------------------------------------------
(* Shop verification properties. *)

UnusedOtps(shop_id, otp_type) ==
    {i \in 1..Len(otps) :
        /\ otps[i].shop_id = shop_id
        /\ otps[i].otp_type = otp_type
        /\ ~otps[i].is_used}

(* C11: for every shop and OTP type at most one OTP is unused, hence at    *)
(* most one is unused and unexpired, and it is the newest of the pair:     *)
(* every OTP of the pair created before another one is marked used.        *)
C11_OneActiveOtp ==
    \A shop_id \in DOMAIN shops, otp_type \in OtpTypes :
        /\ Cardinality(UnusedOtps(shop_id, otp_type)) <= 1
        /\ Cardinality(ActiveOtps(otps, shop_id, otp_type)) <= 1
        /\ \A i, j \in 1..Len(otps) :
              (/\ i < j
               /\ otps[i].shop_id = shop_id /\ otps[j].shop_id = shop_id
               /\ otps[i].otp_type = otp_type /\ otps[j].otp_type = otp_type)
              => otps[i].is_used

(* A second OTP of a pair was requested while the first was unused and     *)
(* unexpired: the first is used without having been verified, the second   *)
(* is active.                                                              *)
C11_Witness ==
    \E i, j \in 1..Len(otps) :
        /\ i < j
        /\ otps[i].shop_id = otps[j].shop_id
        /\ otps[i].otp_type = otps[j].otp_type
        /\ otps[i].expires_at > now
        /\ otps[i].is_used
        /\ otps[i].verified_at = NoTime
        /\ j \in ActiveOtps(otps, otps[j].shop_id, otps[j].otp_type)

(* The sellers that own a shop, and the newest OTP of a pair (0 if none). *)
ShopSellers == {s \in SellerIds : SellerRefusal("", s).code = 0}
NewestOtp(shop_id, otp_type) ==
    LET pair == {i \in 1..Len(otps) :
                    otps[i].shop_id = shop_id /\ otps[i].otp_type = otp_type}
    IN IF pair = {} THEN 0 ELSE CHOOSE i \in pair : \A j \in pair : j <= i

(* A verify request with the code of the pair's unused, unexpired OTP     *)
(* answers 200, sets the flag of its type (and nothing else of the shop)   *)
(* and marks the OTP used and verified now.                                *)
C12_CorrectCodeVerifies ==
    \A seller_id \in ShopSellers, otp_type \in OtpTypes, otp_code \in OtpCodes :
        LET shop_id == ShopOf(seller_id)
            active == get_active_otp(otps, shop_id, otp_type)
            out == verify_otp_result(otp_type, seller_id, otp_code, TRUE, TRUE)
        IN (active # 0 /\ CheckPasswordHash(otps[active].otp_hash, otp_code)) =>
              /\ out.resp.code = 200
              /\ out.shops = [shops EXCEPT ![shop_id] = SetFlag(@, otp_type)]
              /\ Flag(out.shops[shop_id], otp_type)
              /\ out.otps = [otps EXCEPT ![active].is_used = TRUE,
                                         ![active].verified_at = now]

(* While the newest OTP of a pair is used (no new OTP was requested since) *)
(* no verify request of the pair succeeds, whatever the code.              *)
C12_UsedOtpFails ==
    \A seller_id \in ShopSellers, otp_type \in OtpTypes, otp_code \in OtpInputs,
       otp_commit_ok \in BOOLEAN, shop_commit_ok \in BOOLEAN :
        LET newest == NewestOtp(ShopOf(seller_id), otp_type)
            out == verify_otp_result(otp_type, seller_id, otp_code,
                                     otp_commit_ok, shop_commit_ok)
        IN (newest # 0 /\ otps[newest].is_used) =>
              /\ out.resp.code \in {400, 404}
              /\ out.shops = shops /\ out.otps = otps

(* An OTP is verified at most once, only while it is unused and unexpired, *)
(* and it stays used; a flag is only set by a step that verifies an OTP of *)
(* its pair, and it stays set.                                             *)
C12_VerifiedOnce ==
    /\ \A i \in 1..Len(otps) :
          /\ Len(otps') >= Len(otps)
          /\ otps[i].is_used => otps'[i].is_used
          /\ otps'[i].verified_at # otps[i].verified_at =>
                /\ i \in ActiveOtps(otps, otps[i].shop_id, otps[i].otp_type)
                /\ otps'[i].is_used
                /\ otps'[i].verified_at = now
    /\ \A shop_id \in DOMAIN shops, otp_type \in OtpTypes :
          /\ Flag(shops[shop_id], otp_type) => Flag(shops'[shop_id], otp_type)
          /\ (~Flag(shops[shop_id], otp_type) /\ Flag(shops'[shop_id], otp_type)) =>
                \E i \in ActiveOtps(otps, shop_id, otp_type) :
                    otps'[i].verified_at = now

(* C12: verifying an OTP with the correct code while it is unused and      *)
(* unexpired sets the flag of its type and marks the OTP used; afterwards  *)
(* every verify request for the same shop and type fails until a new OTP   *)
(* is requested, so the same code never succeeds twice.                    *)
C12_SingleUse ==
    /\ [](C12_CorrectCodeVerifies /\ C12_UsedOtpFails)
    /\ [][C12_VerifiedOnce]_vars

(* An OTP was verified and set its shop's flag; it is still the newest of  *)
(* its pair, and a verify request with its code is now refused.            *)
C12_Witness ==
    \E i \in 1..Len(otps), seller_id \in ShopSellers, otp_code \in OtpCodes :
        /\ ShopOf(seller_id) = otps[i].shop_id
        /\ otps[i].is_used
        /\ otps[i].verified_at # NoTime
        /\ Flag(shops[otps[i].shop_id], otps[i].otp_type)
        /\ NewestOtp(otps[i].shop_id, otps[i].otp_type) = i
        /\ CheckPasswordHash(otps[i].otp_hash, otp_code)
        /\ verify_otp_result(otps[i].otp_type, seller_id, otp_code, TRUE, TRUE).resp.code = 404

(* C13: a verify request that fails (no code, no seller or shop, no unused *)
(* and unexpired OTP of the pair, or a wrong code) answers 400 or 404 and  *)
(* leaves every OTP and every shop as stored; a wrong code for the pair's  *)
(* active OTP is such a failure, and the correct code is still accepted    *)
(* in the state it leaves.                                                 *)
C13_FailedVerifyChangesNothing ==
    \A seller_id \in SellerIds, otp_type \in OtpTypes, otp_code \in OtpInputs,
       otp_commit_ok \in BOOLEAN, shop_commit_ok \in BOOLEAN :
        LET out == verify_otp_result(otp_type, seller_id, otp_code,
                                     otp_commit_ok, shop_commit_ok)
            active == IF seller_id \in ShopSellers
                      THEN get_active_otp(otps, ShopOf(seller_id), otp_type) ELSE 0
        IN /\ out.resp.code \in {400, 404} => (out.shops = shops /\ out.otps = otps)
           /\ (active = 0 \/ otp_code = "") => out.resp.code \in {400, 404}
           /\ (active # 0 /\ ~CheckPasswordHash(otps[active].otp_hash, otp_code)) =>
                 /\ out.resp.code = 400
                 /\ \E right \in OtpCodes :
                       verify_otp_result(otp_type, seller_id, right, TRUE, TRUE).resp.code = 200

(* A shop has an active OTP; the wrong code is refused with 400 and the    *)
(* right code is accepted.                                                 *)
C13_Witness ==
    \E seller_id \in ShopSellers, otp_type \in OtpTypes, wrong, right \in OtpCodes :
        /\ get_active_otp(otps, ShopOf(seller_id), otp_type) # 0
        /\ wrong # right
        /\ verify_otp_result(otp_type, seller_id, wrong, TRUE, TRUE).resp.code = 400
        /\ verify_otp_result(otp_type, seller_id, right, TRUE, TRUE).resp.code = 200
        /\ ~Flag(shops[ShopOf(seller_id)], otp_type)

(* The guards of request_verification on a shop row. *)
MayRequestVerification(shop) ==
    /\ shop.phone_verified
    /\ shop.email_verified
    /\ shop.verification_status \notin {VERIFIED, UNDER_REVIEW}

(* A request_verification of a seller with a shop answers 200 exactly when *)
(* the guards hold (and the database accepts the write); it then sets      *)
(* PENDING and stamps verification_requested_at and writes nothing else;   *)
(* with a failing guard it answers 400, and every answer other than 200    *)
(* leaves the rows as stored.                                              *)
C14_RequestGuards ==
    \A seller_id \in SellerIds, commit_ok \in BOOLEAN :
        LET out == request_verification_result(seller_id, commit_ok)
            shop_id == ShopOf(seller_id)
        IN /\ out.otps = otps
           /\ out.resp.code # 200 => out.shops = shops
           /\ out.resp.code = 200 => seller_id \in ShopSellers
           /\ seller_id \in ShopSellers =>
                 /\ out.resp.code = 200 <=> (MayRequestVerification(shops[shop_id]) /\ commit_ok)
                 /\ ~MayRequestVerification(shops[shop_id]) => out.resp.code = 400
                 /\ out.resp.code = 200 =>
                       out.shops = [shops EXCEPT
                                       ![shop_id].verification_status = PENDING,
                                       ![shop_id].verification_requested_at = now]

(* A step that changes verification_requested_at of a shop found the       *)
(* guards true, stamps the current time and leaves the shop PENDING.       *)
C14_StampOnlyWhenAllowed ==
    \A shop_id \in DOMAIN shops :
        shops'[shop_id].verification_requested_at # shops[shop_id].verification_requested_at =>
            /\ MayRequestVerification(shops[shop_id])
            /\ shops'[shop_id].verification_requested_at = now
            /\ shops'[shop_id].verification_status = PENDING

(* C14: request_verification succeeds only when phone_verified and         *)
(* email_verified are both true and the status is neither VERIFIED nor     *)
(* UNDER_REVIEW; on success the status becomes PENDING and                 *)
(* verification_requested_at is stamped; with a failing guard the status   *)
(* and verification_requested_at stay as they were.                        *)
C14_RequestVerification ==
    /\ []C14_RequestGuards
    /\ [][C14_StampOnlyWhenAllowed]_vars

(* A rejected shop requested verification again: it is PENDING with a      *)
(* request time, and still carries the rejection reason.                   *)
C14_Witness ==
    \E shop_id \in DOMAIN shops :
        /\ shops[shop_id].verification_status = PENDING
        /\ shops[shop_id].verification_requested_at # NoTime
        /\ shops[shop_id].rejection_reason # NoText

(* C15: verify_shop by an admin on a stored shop, whatever its status,     *)
(* answers 200 (when the database accepts the write) and sets VERIFIED,    *)
(* verified_by = the admin's id, verified_at = now and rejection_reason =  *)
(* NULL, touching nothing else; without an admin_id, with a caller that is *)
(* not an admin or with an unknown shop it answers 400, 403 or 404 and     *)
(* leaves every shop as stored.                                            *)
C15_VerifyShop ==
    \A shop_id \in ShopIdInputs, admin_id \in AdminIds, commit_ok \in BOOLEAN :
        LET out == verify_shop_result(shop_id, admin_id, commit_ok) IN
        /\ out.otps = otps
        /\ (IsAdmin(admin_id) /\ shop_id \in DOMAIN shops /\ commit_ok) =>
              /\ out.resp.code = 200
              /\ out.shops =
                    [shops EXCEPT ![shop_id].verification_status = VERIFIED,
                                  ![shop_id].verified_by = admin_id,
                                  ![shop_id].verified_at = now,
                                  ![shop_id].rejection_reason = NoText]
        /\ (~IsAdmin(admin_id) \/ shop_id \notin DOMAIN shops) =>
              /\ out.resp.code \in {400, 403, 404}
              /\ out.shops = shops
        /\ out.resp.code # 200 => out.shops = shops

(* One shop was verified by an admin; another is rejected with a reason,   *)
(* and a verify_shop request of an admin would verify it and clear the     *)
(* reason.                                                                 *)
C15_Witness ==
    /\ \E shop_id \in DOMAIN shops :
          /\ shops[shop_id].verification_status = VERIFIED
          /\ IsAdmin(shops[shop_id].verified_by)
          /\ shops[shop_id].verified_at # NoTime
          /\ shops[shop_id].rejection_reason = NoText
    /\ \E shop_id \in DOMAIN shops, admin_id \in AdminIds :
          LET out == verify_shop_result(shop_id, admin_id, TRUE) IN
          /\ shops[shop_id].verification_status = REJECTED
          /\ shops[shop_id].rejection_reason # NoText
          /\ out.resp.code = 200
          /\ out.shops[shop_id].verification_status = VERIFIED
          /\ out.shops[shop_id].rejection_reason = NoText

(* C16: reject_shop with an empty or whitespace-only reason answers 400    *)
(* and leaves every shop as stored; with a non-blank reason, sent by an    *)
(* admin for a stored shop, it answers 200 (when the database accepts the  *)
(* write), sets REJECTED, stores the stripped reason and clears            *)
(* verified_at and verified_by, touching nothing else.                     *)
C16_RejectShop ==
    \A shop_id \in ShopIdInputs, admin_id \in AdminIds, reason \in ReasonInputs,
       commit_ok \in BOOLEAN :
        LET out == reject_shop_result(shop_id, admin_id, reason, commit_ok) IN
        /\ out.otps = otps
        /\ out.resp.code # 200 => out.shops = shops
        /\ Strip(reason) = "" => (out.resp.code = 400 /\ out.shops = shops)
        /\ (/\ Strip(reason) # "" /\ IsAdmin(admin_id)
            /\ shop_id \in DOMAIN shops /\ commit_ok) =>
              /\ out.resp.code = 200
              /\ out.shops =
                    [shops EXCEPT ![shop_id].verification_status = REJECTED,
                                  ![shop_id].rejection_reason = Strip(reason),
                                  ![shop_id].verified_at = NoTime,
                                  ![shop_id].verified_by = NoUser]

(* One shop is rejected with a reason and has no verifier; another is      *)
(* verified, a blank reason leaves it verified and a non-blank reason of   *)
(* an admin rejects it and clears its verifier.                            *)
C16_Witness ==
    /\ \E shop_id \in DOMAIN shops :
          /\ shops[shop_id].verification_status = REJECTED
          /\ shops[shop_id].rejection_reason = "no licence"
          /\ shops[shop_id].verified_by = NoUser
    /\ \E shop_id \in DOMAIN shops, admin_id \in AdminIds :
          LET blank == reject_shop_result(shop_id, admin_id, " ", TRUE)
              out == reject_shop_result(shop_id, admin_id, " no licence ", TRUE)
          IN /\ shops[shop_id].verification_status = VERIFIED
             /\ shops[shop_id].verified_by # NoUser
             /\ blank.resp.code = 400
             /\ blank.shops = shops
             /\ out.resp.code = 200
             /\ out.shops[shop_id].verified_by = NoUser
             /\ out.shops[shop_id].verified_at = NoTime

(* C17: a shop has verified_at or verified_by set only while its status is *)
(* VERIFIED.                                                               *)
C17_VerifierOnlyWhenVerified ==
    \A shop_id \in DOMAIN shops :
        (shops[shop_id].verified_at # NoTime \/ shops[shop_id].verified_by # NoUser) =>
            shops[shop_id].verification_status = VERIFIED

(* C18: a VERIFIED shop has a verified_by that is the id of a stored       *)
(* admin.                                                                  *)
C18_VerifiedByAdmin ==
    \A shop_id \in DOMAIN shops :
        shops[shop_id].verification_status = VERIFIED =>
            IsAdmin(shops[shop_id].verified_by)

(* The single-shop handler of a bulk action, with the bulk request's admin *)
(* and reason.                                                             *)
SingleShopResult(action, shop_id, admin_id, rejection_reason) ==
    CASE action = "verify" -> verify_shop_result(shop_id, admin_id, TRUE)
      [] action = "reject" -> reject_shop_result(shop_id, admin_id, rejection_reason, TRUE)
      [] action = "under_review" -> put_shop_under_review_result(shop_id, admin_id, TRUE)

(* C19: a bulk_verify_shops request of an admin with a valid action (and,  *)
(* for reject, a non-blank reason) leaves every stored shop it names as    *)
(* the single-shop handler of the action would, called with the same admin *)
(* and reason; an id that is not stored is reported as an error of that id *)
(* and the other shops are still changed.                                  *)
C19_BulkLikeSingle ==
    \A data \in BulkShopRequests :
        (/\ data.action \in {"verify", "reject", "under_review"}
         /\ data.shop_ids # <<>>
         /\ IsAdmin(data.admin_id)
         /\ data.action = "reject" => Strip(data.rejection_reason) # "") =>
            LET out == bulk_verify_shops_result(data, TRUE) IN
            /\ out.resp.code = 200
            /\ \A i \in 1..Len(data.shop_ids) :
                  LET shop_id == data.shop_ids[i] IN
                  IF shop_id \in DOMAIN shops
                  THEN out.shops[shop_id] =
                          SingleShopResult(data.action, shop_id, data.admin_id,
                                           data.rejection_reason).shops[shop_id]
                  ELSE \E e \in 1..Len(out.resp.errors) :
                          out.resp.errors[e].shop_id = shop_id

----------------------------------------------------------------------------
(* Subscription properties. *)

SubscriptionTargets ==
    {<<subscriptions[i].subscription_type, subscriptions[i].target_id>> :
        i \in 1..Len(subscriptions)}

(* C20: for every subscription type and target at most one Subscription    *)
(* row is active, and get_active_subscription returns that row, or none    *)
(* when the target has no active row.                                      *)
C20_OneActiveSubscription ==
    \A subscription_type \in VALID_SUBSCRIPTION_TYPES, target_id \in TargetIdInputs :
        LET active == ActiveSubscriptions(subscriptions, subscription_type, target_id)
            found == get_active_subscription(subscriptions, subscription_type, target_id)
        IN /\ Cardinality(active) <= 1
           /\ active = {} => found = 0
           /\ active # {} => active = {found}

(* One target has a superseded row and an active row, which is the one     *)
(* get_active_subscription returns; another target has only a deactivated  *)
(* row and get_active_subscription returns none.                           *)
C20_Witness ==
    \E a, b \in SubscriptionTargets :
        /\ a # b
        /\ \E i, j \in 1..Len(subscriptions) :
              /\ i < j
              /\ <<subscriptions[i].subscription_type, subscriptions[i].target_id>> = a
              /\ <<subscriptions[j].subscription_type, subscriptions[j].target_id>> = a
              /\ ~subscriptions[i].is_active
              /\ subscriptions[j].is_active
              /\ get_active_subscription(subscriptions, a[1], a[2]) = j
        /\ ActiveSubscriptions(subscriptions, b[1], b[2]) = {}
        /\ get_active_subscription(subscriptions, b[1], b[2]) = 0

SubscriptionsOf(subscription_type, target_id) ==
    {i \in 1..Len(subscriptions) :
        /\ subscriptions[i].subscription_type = subscription_type
        /\ subscriptions[i].target_id = target_id}

(* C21: a create_subscription call for a target whose stored rows are     *)
(* those of earlier successive calls (the newest active, the others        *)
(* inactive) succeeds when the database is available: it adds one active   *)
(* row and keeps every earlier row of the target, inactive.                *)
C21_SuccessiveCreatesSucceed ==
    \A subscription_type \in VALID_SUBSCRIPTION_TYPES, target_id \in TargetIdInputs :
        LET rows == SubscriptionsOf(subscription_type, target_id)
            created == create_subscription(subscriptions, subscription_type, target_id,
                                           FromIsoFormat("2026-12-31Z"), NoUser, TRUE)
        IN (\A i \in rows :
                subscriptions[i].is_active <=> (\A j \in rows : j <= i)) =>
              /\ created.ok
              /\ Len(created.table) = Len(subscriptions) + 1
              /\ created.table[Len(created.table)].is_active
              /\ created.table[Len(created.table)].target_id = target_id
              /\ \A i \in 1..Len(subscriptions) :
                    created.table[i] =
                        IF i \in rows THEN [subscriptions[i] EXCEPT !.is_active = FALSE]
                        ELSE subscriptions[i]

----------------------------------------------------------------------------
(* Category request properties. *)

(* The cases in which create_category is to reject a request that gives a  *)
(* name and a level.                                                       *)
CreateRejected(data) ==
    LET level == data.level
        parent_id == data.parent_id
        stored == ~IsNone(parent_id) /\ parent_id.v \in DOMAIN categories
    IN \/ ~(level.t = "int" /\ level.v \in VALID_CATEGORY_LEVELS)
       \/ level.v = CATEGORY_LEVEL_TRUNK /\ ~IsNone(parent_id)
       \/ level.v # CATEGORY_LEVEL_TRUNK /\ IsNone(parent_id)
       \/ ~IsNone(parent_id) /\ ~stored
       \/ stored /\ level.v = CATEGORY_LEVEL_BRANCH
                 /\ categories[parent_id.v].level # CATEGORY_LEVEL_TRUNK
       \/ stored /\ level.v = CATEGORY_LEVEL_LEAF
                 /\ categories[parent_id.v].level # CATEGORY_LEVEL_BRANCH

(* C22: a create_category request with a name and a level is rejected with *)
(* nothing persisted when its level is not one of 0, 1, 2, when it is a    *)
(* TRUNK with a parent_id, a BRANCH or LEAF without one, when the parent   *)
(* is not stored, or when the parent's level is not the one above; every   *)
(* other such request, when the database accepts the row (no stored        *)
(* category has its name, parent and level), persists exactly one new      *)
(* category with the requested level and parent.                           *)
C22_CreateValidation ==
    \A data \in CreateData, commit_ok \in BOOLEAN :
        (~IsAbsent(data.name) /\ ~IsAbsent(data.level)) =>
            LET out == create_category_result(data, commit_ok)
                category == Category(data.name.v, data.level.v,
                                     IF IsNone(data.parent_id) THEN NoParent
                                     ELSE data.parent_id.v, TRUE)
                added == categories @@ (next_category_id :> category)
            IN IF CreateRejected(data)
               THEN out.resp.code \in {400, 404} /\ out.table = categories
               ELSE (commit_ok /\ UniqueCategoryName(added)) =>
                        (out.resp.code = 201 /\ out.table = added)

(* Every parent_id and every product's category_id names a stored          *)
(* category.                                                               *)
C23_ReferencesStored ==
    /\ \A c \in DOMAIN categories :
          categories[c].parent_id # NoParent => categories[c].parent_id \in DOMAIN categories
    /\ \A p \in DOMAIN ProductCategory : ProductCategory[p] \in DOMAIN categories

(* delete_category answers 400 and removes nothing while the category has  *)
(* a child or a product, and removes exactly its row otherwise (when the    *)
(* database accepts the delete).                                           *)
C23_DeleteGuards ==
    \A category_id \in DOMAIN categories, commit_ok \in BOOLEAN :
        LET out == delete_category_result(category_id, commit_ok)
            used == \/ \E c \in DOMAIN categories : categories[c].parent_id = category_id
                    \/ \E p \in DOMAIN ProductCategory : ProductCategory[p] = category_id
        IN /\ used => (out.resp.code = 400 /\ out.table = categories)
           /\ out.table # categories => DOMAIN out.table = DOMAIN categories \ {category_id}
           /\ (~used /\ commit_ok) =>
                 (out.resp.code = 200 /\ category_id \notin DOMAIN out.table)

(* A step removes a category only if the category has no product and every *)
(* child it had is removed before it by the same request; the rows that    *)
(* stay are not changed by a removal.                                      *)
C23_RemovedUnused ==
    \A removed \in DOMAIN categories \ DOMAIN categories' :
        /\ \A p \in DOMAIN ProductCategory : ProductCategory[p] # removed
        /\ \A c \in DOMAIN categories :
              categories[c].parent_id = removed => c \notin DOMAIN categories'
        /\ \A c \in DOMAIN categories' : c \in DOMAIN categories /\ categories'[c] = categories[c]

(* C23: a category is never removed while it has child categories or       *)
(* products: delete_category and the bulk delete refuse it and leave the   *)
(* rows stored, a row is removed only when it has no child and no product, *)
(* and no stored category or product references a removed category.        *)
C23_NoDeleteWhileUsed ==
    /\ [](C23_ReferencesStored /\ C23_DeleteGuards)
    /\ [][C23_RemovedUnused]_vars

(* A category was removed, and the leaf that owns the products and its     *)
(* ancestors are stored and refuse to be deleted.                          *)
C23_Witness ==
    /\ \E c \in 1..(next_category_id - 1) : c \notin DOMAIN categories
    /\ \A p \in DOMAIN ProductCategory :
          LET leaf == ProductCategory[p] IN
          /\ leaf \in DOMAIN categories
          /\ delete_category_result(leaf, TRUE).resp.code = 400
          /\ categories[leaf].parent_id \in DOMAIN categories
          /\ delete_category_result(categories[leaf].parent_id, TRUE).resp.code = 400

(* The cases in which a bulk move of one stored category is to be refused. *)
MoveRejected(category_id, new_parent_id) ==
    LET level == categories[category_id].level IN
    \/ level = CATEGORY_LEVEL_TRUNK
    \/ new_parent_id \notin DOMAIN categories
    \/ level = CATEGORY_LEVEL_BRANCH /\ categories[new_parent_id].level # CATEGORY_LEVEL_TRUNK
    \/ level = CATEGORY_LEVEL_LEAF /\ categories[new_parent_id].level # CATEGORY_LEVEL_BRANCH

(* C24: a bulk move reports, for each listed id, an error and leaves the   *)
(* category's parent_id as stored when the category is a TRUNK, when the   *)
(* new parent is not stored, or when the new parent's level is not the one *)
(* above the category's; every other listed category gets the new          *)
(* parent_id (when the database accepts the write) and nothing else of any *)
(* category changes.                                                       *)
C24_MoveValidation ==
    \A data \in BulkCategoryData, commit_ok \in BOOLEAN :
        (/\ data.operation = StrV("move")
         /\ data.category_ids # <<>>
         /\ ~IsNone(data.new_parent_id)) =>
            LET out == bulk_update_categories_result(data, commit_ok)
                listed == {data.category_ids[i] : i \in 1..Len(data.category_ids)}
                new_parent_id == data.new_parent_id.v
                accepted == {c \in listed \cap DOMAIN categories :
                                ~MoveRejected(c, new_parent_id)}
                moved == [c \in DOMAIN categories |->
                             IF c \in accepted
                             THEN [categories[c] EXCEPT !.parent_id = new_parent_id]
                             ELSE categories[c]]
            IN /\ out.table \in {categories, moved}
               /\ (commit_ok /\ UniqueCategoryName(moved)) =>
                     (out.resp.code = 200 /\ out.table = moved)
               /\ out.resp.code = 200 =>
                     /\ out.table = moved
                     /\ \A c \in listed :
                           IF c \in accepted
                           THEN \E u \in 1..Len(out.resp.updated) : out.resp.updated[u] = c
                           ELSE \E e \in 1..Len(out.resp.errors) :
                                   out.resp.errors[e].category_id = c

(* A seeded category was moved under another parent of the right level,    *)
(* keeping its name and level, and a move of it to a parent of the wrong   *)
(* level would be refused with an error for its id.                        *)
C24_Witness ==
    \E c \in DOMAIN SeedCategories \cap DOMAIN categories, p \in DOMAIN categories :
        /\ categories[c].parent_id # SeedCategories[c].parent_id
        /\ categories[c] = [SeedCategories[c] EXCEPT !.parent_id = categories[c].parent_id]
        /\ ~MoveRejected(c, categories[c].parent_id)
        /\ MoveRejected(c, p)
        /\ LET out == bulk_update_categories_result(BulkData(StrV("move"), <<c>>, IntV(p)), TRUE)
           IN /\ out.table = categories
              /\ Len(out.resp.errors) = 1

(* C25: no two stored categories have the same name, parent_id and level,  *)
(* two TRUNK categories (parent_id NULL) of one name included.             *)
C25_UniqueTriple ==
    \A a, b \in DOMAIN categories :
        (/\ categories[a].name = categories[b].name
         /\ categories[a].parent_id = categories[b].parent_id
         /\ categories[a].level = categories[b].level) => a = b

----------------------------------------------------------------------------
(* Further shop verification properties. *)

(* C26: an OTP that is marked used with verified_at set belongs to a shop  *)
(* whose flag of the OTP's type is set.                                    *)
C26_VerifiedOtpSetsFlag ==
    \A i \in 1..Len(otps) :
        (otps[i].is_used /\ otps[i].verified_at # NoTime) =>
            Flag(shops[otps[i].shop_id], otps[i].otp_type)

(* C28: no seller request (request OTP, verify OTP, request_verification)  *)
(* changes the verification_status of a shop that is SUSPENDED.            *)
C28_SellerKeepsSuspended ==
    \A seller_id \in ShopSellers :
        LET shop_id == ShopOf(seller_id) IN
        shops[shop_id].verification_status = SUSPENDED =>
            /\ \A commit_ok \in BOOLEAN :
                  request_verification_result(seller_id, commit_ok)
                      .shops[shop_id].verification_status = SUSPENDED
            /\ \A otp_type \in OtpTypes, otp_code \in OtpInputs,
                  otp_commit_ok \in BOOLEAN, shop_commit_ok \in BOOLEAN :
                  /\ request_otp_result(otp_type, seller_id, otp_code, otp_commit_ok)
                         .shops[shop_id].verification_status = SUSPENDED
                  /\ verify_otp_result(otp_type, seller_id, otp_code,
                                       otp_commit_ok, shop_commit_ok)
                         .shops[shop_id].verification_status = SUSPENDED

----------------------------------------------------------------------------
(* Concurrency properties. *)

(* C27: once every concurrent create_otp call has completed, at most one   *)
(* unused, unexpired OTP exists for a (shop, otp_type) pair.               *)
C27_OneActiveOtpAfterRace ==
    (\A p \in Sessions : otp_sessions[p].pc = "idle") =>
        \A otp_type \in OtpTypes :
            Cardinality(ActiveOtps(otps, race_shop, otp_type)) <= 1

RECURSIVE SumValues(_)
SumValues(sources) ==
    IF sources = <<>> THEN 0
    ELSE Head(sources).value + SumValues(Tail(sources))

(* C29: once every concurrent stock_change update has completed without    *)
(* clamping, the stock is the initial stock plus every committed change    *)
(* and each StockUpdate row starts from the stock the row before it left.  *)
C29_NoLostUpdate ==
    ( /\ \A p \in Sessions : stock_sessions[p].pc = "idle"
      /\ \A i \in 1..Len(stock_updates) :
             stock_updates[i].stock_change = row_source[i].value ) =>
        /\ product_stock[race_product] = InitialStock[race_product] + SumValues(row_source)
        /\ \A i \in 2..Len(stock_updates) :
               stock_updates[i].old_stock = stock_updates[i - 1].new_stock

====
